---- MODULE Spec2Model ----
(***************************************************************************)
(* A model of the time-stepping core of OpenIFEM:                          *)
(*   - the solid driver SharedSolidSolver::run with its checkpoint         *)
(*     manager (save_checkpoint / load_checkpoint) and the Newmark step    *)
(*     LinearElasticity::run_one_step,                                     *)
(*   - the fluid driver Stokes::run / run_one_step_new,                    *)
(*   - the external-code exchange loop SableWrap::run,                     *)
(*   - the pressure pin of Stokes::set_up_boundary_values,                 *)
(*   - the indicator-driven cell assembly of Stokes::assemble,             *)
(*   - the cell assembly of LinearElasticity::assemble (mass lumping,      *)
(*     material lookup) and the Newmark constants of run_one_step,         *)
(*   - the linear solves and the diagnostics files of one run,             *)
(*   - save_checkpoint as every process executes it, one file operation    *)
(*     at a time, and the constructor of SableWrap,                        *)
(*   - the point constraints of SharedSolidSolver::setup_dofs, the         *)
(*     matrices of the acceleration solve of run_one_step, and the         *)
(*     indicator tests of the assembly and the diagnostics of Stokes.      *)
(* Time is counted in integer ticks: one tick is far larger than the       *)
(* 1e-12 tolerance of the time loops, so "end - current > 1e-12" reads     *)
(* "end - current > 0".  Field vectors are abstracted to one number each.  *)
(***************************************************************************)
EXTENDS Integers, Sequences, FiniteSets, TLC

VARIABLES
  prog,          \* which driver runs: "solid" (SharedSolidSolver) or "fluid" (Stokes)
  parameters,    \* Parameters::AllParameters, the part the drivers read
  time,          \* Utils::Time: timestep, current, delta_t, end and the intervals
  pc,            \* position of the driver inside run()
  success_load,  \* the local of SharedSolidSolver::run
  current,       \* current_displacement / _velocity / _acceleration
  previous,      \* previous_displacement / _velocity / _acceleration
  disk,          \* the working directory: file name -> content
  pvd,           \* entries written by pvd_writer.write_current_timestep
  last,          \* what the most recent completed step did
  n_init_solve,  \* number of initial-acceleration solves of this process
  scan_order,    \* order in which the last load_checkpoint enumerated the directory
  last_save,     \* history: index and fields of the most recent save_checkpoint
  sw,            \* SableWrap: per process state
  sw_post,       \* SableWrap: the collective each process is blocked in
  sw_hist,       \* SableWrap: history of the activity reductions
  sw_ctor,       \* SableWrap: the element degrees and the constructor's outcome
  pin,           \* Stokes::set_up_boundary_values: mesh, ownership, result
  asm,           \* Stokes::assemble: cells, coefficients, assembled entries
  le,            \* LinearElasticity::assemble / update_strain_and_stress
  nm,            \* the Newmark integration of one degree of freedom
  fs,            \* one run of Stokes / LinearElasticity: solves and diagnostics files
  ck,            \* save_checkpoint on every process: positions and the directory
  pb,            \* SharedSolidSolver: point_boundary_values and the outcome of setup_dofs
  em,            \* LinearElasticity: the matrices of run_one_step as combinations of M, K, added mass and damping
  dg             \* Stokes diagnostics: the cells every routine takes as fluid

vars == <<prog, parameters, time, pc, success_load, current, previous, disk,
          pvd, last, n_init_solve, scan_order, last_save, sw, sw_post,
          sw_hist, sw_ctor, pin, asm, le, nm, fs, ck, pb, em,
          dg>>

runVars == <<prog, parameters, time, pc, success_load, current, previous,
             disk, pvd, last, n_init_solve, scan_order, last_save>>
sableVars == <<sw, sw_post, sw_hist, sw_ctor>>

extraVars == <<le, nm, fs, ck, pb, em, dg>>

(***************************************************************************)
(* Bounds of the model.                                                    *)
(***************************************************************************)
MaxVal == 1        \* solver states a step can produce: 0..MaxVal
MaxIndex == 10     \* largest step index passed to save_checkpoint
MaxEnd == 3        \* largest end time, in ticks
MaxDt == 2         \* largest time step, in ticks
MaxInterval == 2   \* largest output / refinement / save interval, in steps

(***************************************************************************)
(* Utils::Time.  The class lives in utilities.h / utilities.cpp.           *)
(***************************************************************************)
NewTime(p) ==
  [timestep |-> 0, current |-> 0, delta_t |-> p.time_step,
   end |-> p.end_time, output_interval |-> p.output_interval,
   refinement_interval |-> p.refinement_interval,
   save_interval |-> p.save_interval]

TimeIncrement(t) ==
  [t EXCEPT !.current = @ + t.delta_t, !.timestep = @ + 1]

TimeSetDeltaT(t, dt) == [t EXCEPT !.delta_t = dt]

IntervalFires(step, interval) == step >= interval /\ step % interval = 0

TimeToOutput(t) == IntervalFires(t.timestep, t.output_interval)
TimeToRefine(t) == IntervalFires(t.timestep, t.refinement_interval)
TimeToSave(t) == IntervalFires(t.timestep, t.save_interval)

(***************************************************************************)
(* File names.  Utilities::int_to_string(n, 6) pads with zeros to six      *)
(* decimal digits; a stem is the sequence of its characters (digits as     *)
(* 0..9).  std::string comparison is lexicographic.                        *)
(***************************************************************************)
StemDigits == 6

RECURSIVE Pow10(_)
Pow10(k) == IF k = 0 THEN 1 ELSE 10 * Pow10(k - 1)

IntToString(n, digits) ==
  [i \in 1..digits |-> (n \div Pow10(digits - i)) % 10]

RECURSIVE StringToInt(_)
StringToInt(s) ==
  IF Len(s) = 0 THEN 0
  ELSE 10 * StringToInt(SubSeq(s, 1, Len(s) - 1)) + s[Len(s)]

RECURSIVE StrLess(_, _)
StrLess(a, b) ==
  IF Len(b) = 0 THEN FALSE
  ELSE IF Len(a) = 0 THEN TRUE
  ELSE IF a[1] # b[1] THEN a[1] < b[1]
  ELSE StrLess(Tail(a), Tail(b))

StrGreater(a, b) == StrLess(b, a)

ExtDisp == "solid_checkpoint_displacement"
ExtVel == "solid_checkpoint_velocity"
ExtAcc == "solid_checkpoint_acceleration"

\* fs::current_path(): the directory itself, whose stem is its own name
\* (a letter sorts after every digit).
LocalPath == <<<<42>>, "">>

Stem(path) == path[1]
Extension(path) == path[2]
ReplaceExtension(path, ext) == <<path[1], ext>>

(***************************************************************************)
(* The file system under the working directory.                            *)
(***************************************************************************)
Unwritten == -1    \* content of a file that was opened for writing only

Exists(d, path) == path \in DOMAIN d

\* fs::remove: removing a file that does not exist is no error
FsRemove(d, path) == [n \in (DOMAIN d) \ {path} |-> d[n]]

\* std::ofstream(path): creates the file, or truncates it
FsCreate(d, path) ==
  [n \in (DOMAIN d) \cup {path} |-> IF n = path THEN Unwritten ELSE d[n]]

\* Vector::block_write on the open stream
FsWrite(d, path, v) ==
  [n \in (DOMAIN d) \cup {path} |-> IF n = path THEN v ELSE d[n]]

EmptyDir == [n \in {} |-> Unwritten]

\* the entries of the directory with the displacement extension
DispFiles(d) == {n \in DOMAIN d : Extension(n) = ExtDisp}


(***************************************************************************)
(* Solver fields.  A step of the integrator yields one of the solver       *)
(* states 0..MaxVal; the three vectors of a state differ, so that a file   *)
(* holding the wrong vector is seen.                                       *)
(***************************************************************************)
Fields(d, v, a) == [displacement |-> d, velocity |-> v, acceleration |-> a]
ZeroFields == Fields(0, 0, 0)
SolverState(k) == Fields(3 * k + 1, 3 * k + 2, 3 * k + 3)

\* SharedSolidSolver::initialize_system: every vector is re-created (zero);
\* at time 0 the initial velocity is put into previous_ and current_velocity
InitializeSystem(t, p) ==
  IF t.current = 0
  THEN [cur |-> Fields(0, p.initial_velocity, 0),
        prev |-> Fields(0, p.initial_velocity, 0)]
  ELSE [cur |-> ZeroFields, prev |-> ZeroFields]

(***************************************************************************)
(* SharedSolidSolver::save_checkpoint, as the sequence of file operations  *)
(* rank 0 performs.                                                        *)
(***************************************************************************)
\* *checkpoints.begin(): the least path of the std::set<fs::path>
FirstPath(checkpoints) ==
  CHOOSE p \in checkpoints :
    \A q \in checkpoints \ {p} : StrLess(Stem(p), Stem(q))

\* while (checkpoints.size() > 1): remove the three files of the first
RECURSIVE RemovalOps(_)
RemovalOps(checkpoints) ==
  IF Cardinality(checkpoints) > 1
  THEN LET p == FirstPath(checkpoints)
       IN <<[op |-> "remove", path |-> p, data |-> 0],
            [op |-> "remove", path |-> ReplaceExtension(p, ExtVel), data |-> 0],
            [op |-> "remove", path |-> ReplaceExtension(p, ExtAcc), data |-> 0]>>
          \o RemovalOps(checkpoints \ {p})
  ELSE <<>>

CheckpointFile(output_index) == <<IntToString(output_index, StemDigits), ExtDisp>>

\* the three std::ofstream are opened, then the three block_write follow
WriteOpsSwapped(output_index, f) ==
  LET c == CheckpointFile(output_index)
  IN <<[op |-> "create", path |-> c, data |-> 0],
       [op |-> "create", path |-> ReplaceExtension(c, ExtVel), data |-> 0],
       [op |-> "create", path |-> ReplaceExtension(c, ExtAcc), data |-> 0],
       [op |-> "write", path |-> c, data |-> f.displacement],
       [op |-> "write", path |-> ReplaceExtension(c, ExtVel), data |-> f.acceleration],
       [op |-> "write", path |-> ReplaceExtension(c, ExtAcc), data |-> f.velocity]>>

WriteOps(output_index, f) ==
  LET c == CheckpointFile(output_index)
  IN <<[op |-> "create", path |-> c, data |-> 0],
       [op |-> "create", path |-> ReplaceExtension(c, ExtVel), data |-> 0],
       [op |-> "create", path |-> ReplaceExtension(c, ExtAcc), data |-> 0],
       [op |-> "write", path |-> c, data |-> f.displacement],
       [op |-> "write", path |-> ReplaceExtension(c, ExtVel), data |-> f.velocity],
       [op |-> "write", path |-> ReplaceExtension(c, ExtAcc), data |-> f.acceleration]>>

SaveOps(d, output_index, f) ==
  RemovalOps(DispFiles(d)) \o WriteOps(output_index, f)

ApplyOp(d, o) ==
  CASE o.op = "remove" -> FsRemove(d, o.path)
    [] o.op = "create" -> FsCreate(d, o.path)
    [] o.op = "write" -> FsWrite(d, o.path, o.data)

RECURSIVE ApplyOps(_, _)
ApplyOps(d, ops) ==
  IF ops = <<>> THEN d ELSE ApplyOps(ApplyOp(d, Head(ops)), Tail(ops))

(***************************************************************************)
(* SharedSolidSolver::load_checkpoint.                                     *)
(***************************************************************************)
RECURSIVE Orders(_)
\* the orders in which fs::directory_iterator may enumerate a set of entries
Orders(S) ==
  IF S = {} THEN {<<>>}
  ELSE UNION {{<<x>> \o o : o \in Orders(S \ {x})} : x \in S}

\* the condition under which the scan takes entry p
TakesEntryLast(p, checkpoint_file) == Extension(p) = ExtDisp

TakesEntry(p, checkpoint_file) ==
  /\ Extension(p) = ExtDisp
  /\ \/ StrGreater(Stem(p), Stem(checkpoint_file))
     \/ checkpoint_file = LocalPath

RECURSIVE FindLatest(_, _)
FindLatest(order, checkpoint_file) ==
  IF order = <<>> THEN checkpoint_file
  ELSE FindLatest(Tail(order),
                  IF TakesEntry(Head(order), checkpoint_file)
                  THEN Head(order) ELSE checkpoint_file)

\* if (checkpoint_file == local_path) return false
NotFoundNever(checkpoint_file) == FALSE
NotFound(checkpoint_file) == checkpoint_file = LocalPath

\* std::ifstream + Vector::block_read: the content, when the file holds one
Readable(d, path) == Exists(d, path) /\ d[path] # Unwritten

\* if (time.current() == 0 || time.time_to_output()): the replay writes
ReplayWritesOnTrigger(t) == TimeToOutput(t)

ReplayWrites(t) == t.current = 0 \/ TimeToOutput(t)

\* the loop that brings the clock to the restored step and writes the .pvd
RECURSIVE ReplayOutput(_, _, _, _)
ReplayOutput(t, w, i, n) ==
  LET w1 == IF ReplayWrites(t) THEN Append(w, t.timestep) ELSE w
  IN IF i >= n THEN [time |-> t, pvd |-> w1]
     ELSE ReplayOutput(TimeIncrement(t), w1, i + 1, n)


(***************************************************************************)
(* The drivers.                                                            *)
(*   solid: SharedSolidSolver::run, stepping with run_one_step             *)
(*   fluid: Stokes::run, stepping with run_one_step_new                    *)
(* For the fluid, current / previous hold present_ / previous_solution.    *)
(***************************************************************************)
\* the matrix handed to the solve of the initial acceleration, as the
\* coefficients of the mass matrix M, of the stiffness matrix K and of the
\* added mass A (on the diagonal); all 0 when no such solve is made
NoInitialSolve == [M |-> 0, K |-> 0, A |-> 0]

InitialSolveMatrixWithStiffness(simulation_type) ==
  [M |-> 1, K |-> 1, A |-> IF simulation_type = "FSI" THEN 1 ELSE 0]

\* run_one_step, first_step block: assemble_system(true) leaves M alone in
\* system_matrix; system_matrix_updated is its copy, with added_mass_effect
\* on the diagonal in FSI; solve(system_matrix_updated, ...)
InitialSolveMatrix(simulation_type) ==
  [M |-> 1, K |-> 0, A |-> IF simulation_type = "FSI" THEN 1 ELSE 0]

NoStep == [step |-> -1, first |-> FALSE, output |-> FALSE, refine |-> FALSE,
           save |-> FALSE, initial_solve |-> NoInitialSolve]
NoSave == [index |-> -1, fields |-> ZeroFields]

\* while (time.end() - time.current() > 1e-12)
LoopContinuesInclusive(t) == t.end - t.current >= 0
LoopContinues(t) == t.end - t.current > 0

\* a process is started: the constructors build the clock from the parameters
Construct ==
  /\ time = NewTime(parameters)
  /\ pc = "start"
  /\ success_load = FALSE
  /\ current = ZeroFields
  /\ previous = ZeroFields
  /\ pvd = <<>>
  /\ last = NoStep
  /\ n_init_solve = 0
  /\ scan_order = <<>>

\* SharedSolidSolver::run, lines 830-831: refine_global, then load_checkpoint
LoadCheckpoint ==
  /\ prog = "solid"
  /\ pc = "start"
  /\ \E disp_order \in Orders(DispFiles(disk)) :
       LET \* the entries with another extension are skipped wherever they
           \* come, so they are enumerated first, in one order
           order == (CHOOSE o \in Orders((DOMAIN disk) \ DispFiles(disk)) : TRUE)
                    \o disp_order
           checkpoint_file == FindLatest(order, LocalPath)
           disp == checkpoint_file
           vel == ReplaceExtension(checkpoint_file, ExtVel)
           acc == ReplaceExtension(checkpoint_file, ExtAcc)
           sys == InitializeSystem(time, parameters)
       IN /\ scan_order' =
               [i \in 1..Cardinality(DispFiles(disk)) |->
                  Stem(SelectSeq(order, LAMBDA e : Extension(e) = ExtDisp)[i])]
          /\ IF NotFound(checkpoint_file)
             THEN /\ success_load' = FALSE
                  /\ pc' = "init"
                  /\ UNCHANGED <<time, current, previous, pvd>>
             ELSE IF ~(Readable(disk, disp) /\ Readable(disk, vel)
                        /\ Readable(disk, acc))
             THEN \* block_read throws ExcIO; nothing catches it
                  /\ pc' = "aborted"
                  /\ current' = sys.cur
                  /\ previous' = sys.prev
                  /\ UNCHANGED <<success_load, time, pvd>>
             ELSE LET read == Fields(disk[disp], disk[vel], disk[acc])
                      replay == ReplayOutput(time, pvd, 0,
                                             StringToInt(Stem(checkpoint_file)))
                  IN /\ current' = read
                     /\ previous' = read
                     /\ time' = replay.time
                     /\ pvd' = replay.pvd
                     /\ success_load' = TRUE
                     /\ pc' = "first"
  /\ UNCHANGED <<prog, parameters, disk, last, n_init_solve, last_save>>

\* SharedSolidSolver::run, lines 832-836: setup_dofs, initialize_system
InitFresh ==
  /\ prog = "solid"
  /\ pc = "init"
  /\ LET sys == InitializeSystem(time, parameters)
     IN current' = sys.cur /\ previous' = sys.prev
  /\ pc' = "first"
  /\ UNCHANGED <<prog, parameters, time, success_load, disk, pvd, last,
                 n_init_solve, scan_order, last_save>>

\* LinearElasticity::run_one_step(first_step), followed by what
\* SharedSolidSolver::refine_mesh does to the vectors when it is called
SolidRefines(t) == TimeToRefine(t)
SolidOutputs(t) == TimeToOutput(t)

RunOneStep(first_step) ==
  \E k \in 0..MaxVal :
    LET w0 == IF first_step THEN Append(pvd, time.timestep) ELSE pvd
        t1 == TimeIncrement(time)
        out == SolidOutputs(t1)
        ref == SolidRefines(t1)
    IN /\ time' = t1
       /\ pvd' = IF out THEN Append(w0, t1.timestep) ELSE w0
       /\ previous' = SolverState(k)
       /\ current' = IF ref THEN ZeroFields ELSE SolverState(k)
       /\ n_init_solve' = IF first_step THEN n_init_solve + 1 ELSE n_init_solve
       /\ disk' = disk
       /\ last' = [step |-> t1.timestep, first |-> first_step, output |-> out,
                   refine |-> ref, save |-> disk' # disk,
                   initial_solve |->
                     IF first_step
                     THEN InitialSolveMatrix(parameters.simulation_type)
                     ELSE NoInitialSolve]

\* SharedSolidSolver::run, lines 839-843
SolidFirst ==
  /\ prog = "solid"
  /\ pc = "first"
  /\ IF ~success_load
     THEN RunOneStep(TRUE)
     ELSE \* assemble_system(true): matrices only
          UNCHANGED <<time, pvd, previous, current, n_init_solve, disk, last>>
  /\ pc' = "loop"
  /\ UNCHANGED <<prog, parameters, success_load, scan_order, last_save>>

\* SharedSolidSolver::run, lines 844-847: one turn of the time loop
SolidLoop ==
  /\ prog = "solid"
  /\ pc = "loop"
  /\ IF LoopContinues(time)
     THEN RunOneStep(FALSE) /\ pc' = "loop"
     ELSE /\ pc' = "done"
          /\ UNCHANGED <<time, pvd, previous, current, n_init_solve, disk, last>>
  /\ UNCHANGED <<prog, parameters, success_load, scan_order, last_save>>

\* a call save_checkpoint(output_index) made between two steps, with a step
\* index larger than that of every earlier save
SaveCheckpoint ==
  /\ prog = "solid"
  /\ pc \in {"loop", "done"}
  /\ \E output_index \in 0..MaxIndex :
       /\ output_index > last_save.index
       /\ disk' = ApplyOps(disk, SaveOps(disk, output_index, current))
       /\ last_save' = [index |-> output_index, fields |-> current]
  /\ UNCHANGED <<prog, parameters, time, pc, success_load, current, previous,
                 pvd, last, n_init_solve, scan_order>>

\* the process ends (or is stopped) and the program is started again in the
\* same working directory
Restart ==
  /\ prog = "solid"
  /\ pc \in {"loop", "done", "aborted"}
  /\ time' = NewTime(parameters)
  /\ pc' = "start"
  /\ success_load' = FALSE
  /\ current' = ZeroFields
  /\ previous' = ZeroFields
  /\ pvd' = <<>>
  /\ last' = NoStep
  /\ n_init_solve' = 0
  /\ scan_order' = <<>>
  /\ UNCHANGED <<prog, parameters, disk, last_save>>

\* Stokes::run, lines 1656-1662: refine_global, initialize_bcs
FluidInit ==
  /\ prog = "fluid"
  /\ pc = "start"
  /\ pc' = "first"
  /\ UNCHANGED <<prog, parameters, time, success_load, current, previous, disk,
                 pvd, last, n_init_solve, scan_order, last_save>>

\* Stokes::run_one_step_new
FluidRefinesAlways(t, p) == TimeToRefine(t)
FluidRefines(t, p) == p.simulation_type = "Fluid" /\ TimeToRefine(t)
FluidOutputs(t) == TimeToOutput(t)

RunOneStepNew ==
  \E k \in 0..MaxVal :
    LET w0 == IF time.timestep = 0 THEN Append(pvd, 0) ELSE pvd
        t1 == TimeIncrement(time)
        out == FluidOutputs(t1)
        ref == FluidRefines(t1, parameters)
    IN /\ time' = t1
       /\ previous' = current
       /\ current' = SolverState(k)
       /\ pvd' = IF out THEN Append(w0, t1.timestep) ELSE w0
       /\ disk' = disk
       /\ last' = [step |-> t1.timestep, first |-> time.timestep = 0,
                   output |-> out, refine |-> ref, save |-> disk' # disk,
                   initial_solve |-> NoInitialSolve]
       /\ UNCHANGED n_init_solve

\* Stokes::run, line 1664
FluidFirst ==
  /\ prog = "fluid"
  /\ pc = "first"
  /\ RunOneStepNew
  /\ pc' = "loop"
  /\ UNCHANGED <<prog, parameters, success_load, scan_order, last_save>>

\* Stokes::run, lines 1666-1669
FluidLoop ==
  /\ prog = "fluid"
  /\ pc = "loop"
  /\ IF LoopContinues(time)
     THEN RunOneStepNew /\ pc' = "loop"
     ELSE /\ pc' = "done"
          /\ UNCHANGED <<time, pvd, previous, current, n_init_solve, disk, last>>
  /\ UNCHANGED <<prog, parameters, success_load, scan_order, last_save>>


(***************************************************************************)
(* SableWrap::run: the exchange loop with the external code.               *)
(* Procs are the processes that execute SableWrap::run; the processes of   *)
(* the external code take part in every collective of MPI_COMM_WORLD, and  *)
(* what they contribute is an input.  A process that enters a collective   *)
(* is blocked in it (sw_post) until every process has entered it.          *)
(***************************************************************************)
NProcs == 2        \* processes executing SableWrap::run
MaxSableStep == 3  \* the exchange is followed up to this step index
MaxDegree == 2     \* element degrees 1..MaxDegree

Degrees == 1..MaxDegree

\* the value of a bool where C++ promotes it to int
BoolToInt(b) == IF b THEN 1 ELSE 0

\* the condition of the AssertThrow of the constructor,
\* fluid_velocity_degree == fluid_pressure_degree == 1, which C++ groups
\* from the left: (fluid_velocity_degree == fluid_pressure_degree) == 1
DegreesFirstOrder(fluid_velocity_degree, fluid_pressure_degree) ==
  fluid_velocity_degree = 1 /\ fluid_pressure_degree = 1
DegreesAccepted(fluid_velocity_degree, fluid_pressure_degree) ==
  BoolToInt(fluid_velocity_degree = fluid_pressure_degree) = 1

\* SableWrap::SableWrap: AssertThrow throws when its condition is false
SableWrapConstruct ==
  /\ sw_ctor.status = "none"
  /\ sw_ctor' =
       [sw_ctor EXCEPT !.status =
          IF DegreesAccepted(sw_ctor.fluid_velocity_degree,
                             sw_ctor.fluid_pressure_degree)
          THEN "constructed" ELSE "configuration_error"]
  /\ UNCHANGED <<sw, sw_post, sw_hist>>

\* run() is a member function: it is called on a constructed object
Constructed == sw_ctor.status = "constructed"

Procs == 0..(NProcs - 1)

SetMax(S) == CHOOSE x \in S : \A y \in S : y <= x
SetMin(S) == CHOOSE x \in S : \A y \in S : x <= y

\* SableWrap::All: every process contributes my_b; reports is the set of the
\* contributions of all processes of MPI_COMM_WORLD
Ib(my_b) == IF my_b = TRUE THEN 0 ELSE 1
AllInverted(reports) == SetMax({Ib(b) : b \in reports}) # 0
AllAny(reports) == SetMin({Ib(b) : b \in reports}) = 0
All(reports) == SetMax({Ib(b) : b \in reports}) = 0

\* SableWrap::Max(double &): the maximum over all processes
Max(values) == SetMax(values)

NoReduction == [valid |-> FALSE, reports |-> [p \in Procs |-> TRUE],
                ext |-> TRUE, result |-> TRUE, all_inactive |-> FALSE,
                dts |-> {}]

\* the statement that follows a run_one_step / get_dt_sable in run()
AfterCall(at) ==
  CASE at = "ros1" -> "getdt"
    [] at = "getdt" -> "ros2"
    [] at = "ros2" -> "while"

\* while (is_comm_active) { if (time.current() == 0) ...
SwWhile(p) ==
  /\ sw[p].pc = "while"
  /\ sw' = [sw EXCEPT ![p].pc =
              IF ~sw[p].is_comm_active THEN "done"
              ELSE IF sw[p].current = 0 THEN "ros1" ELSE "getdt"]
  /\ UNCHANGED <<sw_post, sw_hist>>

\* run_one_step enters its reductions: the three Max of the counts alone at
\* step 0, the three Max and the All otherwise
SwRunOneStep(p) ==
  /\ sw[p].pc \in {"ros1", "ros2"}
  /\ sw_post[p] = "none"
  /\ sw_post' = [sw_post EXCEPT ![p] =
                   IF sw[p].timestep = 0 THEN "counts" ELSE "step"]
  /\ UNCHANGED <<sw, sw_hist>>

\* get_dt_sable enters Max(dt)
SwGetDt(p) ==
  /\ sw[p].pc = "getdt"
  /\ sw_post[p] = "none"
  /\ sw[p].timestep < MaxSableStep
  /\ sw_post' = [sw_post EXCEPT ![p] = "dt"]
  /\ UNCHANGED <<sw, sw_hist>>

Everyone(label) == \A p \in Procs : sw_post[p] = label

\* the reductions of run_one_step at step 0 complete: counts, ghost nodes,
\* output_results(0)
SwCounts ==
  /\ Everyone("counts")
  /\ sw' = [p \in Procs |-> [sw[p] EXCEPT !.pc = AfterCall(@)]]
  /\ sw_post' = [p \in Procs |-> "none"]
  /\ UNCHANGED sw_hist

\* the reductions of run_one_step at a later step complete:
\* is_comm_active = All(is_comm_active)
SwStep ==
  /\ Everyone("step")
  /\ \E ext_active \in BOOLEAN :
       LET reports == {sw[p].is_comm_active : p \in Procs} \cup {ext_active}
           result == All(reports)
       IN /\ sw' = [p \in Procs |->
                      [sw[p] EXCEPT !.pc = AfterCall(@),
                                    !.is_comm_active = result]]
          /\ sw_hist' =
               [valid |-> TRUE,
                reports |-> [p \in Procs |-> sw[p].is_comm_active],
                ext |-> ext_active,
                result |-> result,
                all_inactive |->
                  sw_hist.all_inactive \/ (\A b \in reports : ~b),
                dts |-> sw_hist.dts]
  /\ sw_post' = [p \in Procs |-> "none"]

\* Max(dt) of get_dt_sable completes: every process of SableWrap contributes
\* dt = 0, the external code contributes ext_dt; set_delta_t, increment
SwDt ==
  /\ Everyone("dt")
  /\ \E ext_dt \in 0..MaxDt :
       LET contributed == {0, ext_dt}
           dt == Max(contributed)
       IN /\ sw' = [p \in Procs |->
                      [sw[p] EXCEPT !.pc = AfterCall(@),
                                    !.delta_t = dt,
                                    !.current = @ + dt,
                                    !.timestep = @ + 1]]
          /\ sw_hist' = [sw_hist EXCEPT !.dts = contributed]
  /\ sw_post' = [p \in Procs |-> "none"]

(***************************************************************************)
(* Stokes::set_up_boundary_values: the pressure pin.                       *)
(* The mesh is given by the owner of every pressure degree of freedom and  *)
(* its distance to the target point.                                       *)
(***************************************************************************)
PinProcs == 3      \* processes of the fluid solver
NDofs == 3         \* pressure degrees of freedom
MaxDist == 2       \* distances to the target point: 0..MaxDist

Ranks == 0..(PinProcs - 1)
Dofs == 1..NDofs

InvalidDofIndex == 0     \* numbers::invalid_dof_index
DblMax == 1000000        \* std::numeric_limits<double>::max()

\* the loop over the locally owned pressure dofs, in increasing index
RECURSIVE LocalSearch(_, _, _, _, _)
LocalSearch(owner, dist, rank, dof, best) ==
  IF dof > NDofs THEN best
  ELSE LocalSearch(owner, dist, rank, dof + 1,
                   IF owner[dof] = rank /\ dist[dof] < best.distance
                   THEN [distance |-> dist[dof], dof |-> dof]
                   ELSE best)

LocalClosest(owner, dist, rank) ==
  LocalSearch(owner, dist, rank, 1,
              [distance |-> DblMax, dof |-> InvalidDofIndex])

\* MPI_Allreduce with MPI_MINLOC over (distance, rank)
MinLocHighest(local_data) ==
  LET m == SetMin({local_data[r].distance : r \in Ranks})
  IN [distance |-> m,
      rank |-> SetMax({r \in Ranks : local_data[r].distance = m})]

MinLoc(local_data) ==
  LET m == SetMin({local_data[r].distance : r \in Ranks})
  IN [distance |-> m,
      rank |-> SetMin({r \in Ranks : local_data[r].distance = m})]

\* the whole of set_up_boundary_values, on every process
SetUpBoundaryValues ==
  /\ ~pin.done
  /\ LET local == [r \in Ranks |-> LocalClosest(pin.owner, pin.dist, r)]
         global_data == MinLoc([r \in Ranks |->
                                  [distance |-> local[r].distance, rank |-> r]])
         \* MPI_Bcast from global_data.rank; types::global_dof_index is
         \* taken to be as wide as the datatype of the broadcast
         global_fixed_pressure_dof == local[global_data.rank].dof
     IN pin' = [pin EXCEPT
                  !.done = TRUE,
                  !.global_rank = global_data.rank,
                  !.fixed = global_fixed_pressure_dof,
                  !.constraints =
                    [r \in Ranks |->
                       IF /\ global_fixed_pressure_dof # InvalidDofIndex
                          /\ pin.owner[global_fixed_pressure_dof] = r
                       THEN {global_fixed_pressure_dof} ELSE {}]]

\* the mesh is re-partitioned: a degree of freedom changes its owner; the
\* constraints are rebuilt by the next set_up_boundary_values
Repartition ==
  /\ pin.done
  /\ \E d \in Dofs, r \in Ranks :
       pin' = [owner |-> [pin.owner EXCEPT ![d] = r], dist |-> pin.dist,
               done |-> FALSE, global_rank |-> 0, fixed |-> InvalidDofIndex,
               constraints |-> [q \in Ranks |-> {}]]

(***************************************************************************)
(* Stokes::assemble, on the cells of one process.  Every cell carries one  *)
(* velocity test function; the entries recorded are the diagonal entry of  *)
(* the system matrix and of the preconditioner matrix, and the right-hand  *)
(* side, of that function.  The shape-function products are 1 at every     *)
(* quadrature point, and JxW is 1.  dt_inv is 1.0 / time.get_delta_t().    *)
(***************************************************************************)
NCells == 2        \* cells of the mesh
MaxRho == 2        \* densities: 1..MaxRho
MaxTheta == 1      \* penalty scale factors: 0..MaxTheta
MaxDtInv == 2      \* 1 / delta_t: 1..MaxDtInv
n_q_points == 2    \* quadrature points of a cell

Cells == 1..NCells
Indicators == {0, 1, 2}

RECURSIVE SumQ(_, _)
\* sum over the quadrature points q = 1..n of the integrand
SumQ(n, integrand) == IF n = 0 THEN 0 ELSE integrand + SumQ(n - 1, integrand)

MassCoefS(a) == (1 + a.theta) * a.solid_rho * a.dt_inv
MassCoefF(a) == a.fluid_rho * a.dt_inv

\* the coefficient of phi_u[i] * phi_u[j] in local_matrix
MatrixCoef(a, ind) == IF ind = 0 THEN MassCoefF(a) ELSE MassCoefS(a)
\* the coefficient in local_preconditioner_matrix
PreconditionerCoefFluid(a, ind) == MassCoefF(a)
PreconditionerCoef(a, ind) == IF ind = 0 THEN MassCoefF(a) ELSE MassCoefS(a)
\* the coefficient of phi_u[i] * current_velocity_values[q] in local_rhs
RhsCoef(a, ind) == IF ind = 0 THEN MassCoefF(a) ELSE MassCoefS(a)

LocalMatrix(a, c) ==
  SumQ(n_q_points, MatrixCoef(a, a.indicator[c]) + 2 * a.viscosity)

LocalPreconditioner(a, c) ==
  SumQ(n_q_points, PreconditionerCoef(a, a.indicator[c]) + a.viscosity)

LocalStressPart(a, c) ==
  IF a.indicator[c] # 0 THEN SumQ(n_q_points, a.fsi_stress[c]) ELSE 0

LocalAccelerationPart(a, c) ==
  IF a.indicator[c] # 0
  THEN SumQ(n_q_points, a.fsi_acceleration[c] * a.solid_rho) ELSE 0

LocalFsiForceAnyIndicator(a, c) ==
  SumQ(n_q_points, a.fsi_stress[c] + a.fsi_acceleration[c] * a.solid_rho)
LocalFsiForce(a, c) ==
  IF a.indicator[c] # 0
  THEN SumQ(n_q_points, a.fsi_stress[c] + a.fsi_acceleration[c] * a.solid_rho)
  ELSE 0

LocalRhs(a, c) ==
  SumQ(n_q_points, a.gravity)
  + SumQ(n_q_points, RhsCoef(a, a.indicator[c]) * a.present_solution[c])
  + (IF a.indicator[c] # 0
     THEN SumQ(n_q_points,
               a.fsi_stress[c] + a.fsi_acceleration[c] * a.solid_rho)
     ELSE 0)

\* the whole of assemble: the global objects are zeroed, then every locally
\* owned cell adds its local contribution
Assemble ==
  asm' = [asm EXCEPT
    !.fresh = TRUE,
    !.system_matrix =
      [c \in Cells |-> IF asm.owned[c] THEN LocalMatrix(asm, c) ELSE 0],
    !.preconditioner_matrix =
      [c \in Cells |-> IF asm.owned[c] THEN LocalPreconditioner(asm, c) ELSE 0],
    !.system_rhs =
      [c \in Cells |-> IF asm.owned[c] THEN LocalRhs(asm, c) ELSE 0],
    !.fsi_force_acceleration_part =
      [c \in Cells |-> IF asm.owned[c] THEN LocalAccelerationPart(asm, c) ELSE 0],
    !.fsi_force_stress_part =
      [c \in Cells |-> IF asm.owned[c] THEN LocalStressPart(asm, c) ELSE 0],
    !.fsi_force =
      [c \in Cells |-> IF asm.owned[c] THEN LocalFsiForce(asm, c) ELSE 0]]

\* the immersed-boundary detector refreshes the indicator of a cell
SetIndicator ==
  \E c \in Cells, v \in Indicators :
    /\ asm.indicator[c] # v
    /\ asm' = [asm EXCEPT !.indicator[c] = v, !.fresh = FALSE]

(***************************************************************************)
(* LinearElasticity::assemble and update_strain_and_stress.                *)
(* The shape functions take the same values on every cell and at every     *)
(* quadrature point; JxW is 1.  Every cell has its own degrees of freedom. *)
(* Material k of the list (k = 0, 1, ...) has the Lame constant k + 1.     *)
(***************************************************************************)
dofs_per_cell == 2   \* shape functions of a cell
MaxPhi == 1          \* shape function values: 0..MaxPhi
MaxMaterials == 2    \* n_solid_parts: 1..MaxMaterials

LocalDofs == 1..dofs_per_cell
MaterialIds == 0..(MaxMaterials + 1)

ZeroMatrix == [i \in LocalDofs |-> [j \in LocalDofs |-> 0]]

\* LinearElasticity::LinearElasticity: material[i], i = 0..n_solid_parts-1
MaterialLambda(k) == k + 1

\* local_matrix[i][j] += rho * phi[i] * phi[j] * JxW(q), over q
ConsistentMass(phi, rho) ==
  [i \in LocalDofs |->
     [j \in LocalDofs |-> SumQ(n_q_points, rho * phi[i] * phi[j])]]

RECURSIVE RowSum(_, _, _, _)
\* for (j ...) sum = sum + local_matrix[i][j]
RowSum(local_matrix, i, j, sum) ==
  IF j > dofs_per_cell THEN sum
  ELSE RowSum(local_matrix, i, j + 1, sum + local_matrix[i][j])

RECURSIVE LumpNotReset(_, _, _)
LumpNotReset(local_matrix, i, carried) ==
  IF i > dofs_per_cell THEN local_matrix
  ELSE LET sum == RowSum(local_matrix, i, 1, carried)
       IN LumpNotReset(
            [local_matrix EXCEPT
               ![i] = [j \in LocalDofs |-> IF i = j THEN sum ELSE 0]],
            i + 1, sum)

RECURSIVE LumpRows(_, _)
\* "create lumped mass matrix": row by row, in place
LumpRows(local_matrix, i) ==
  IF i > dofs_per_cell THEN local_matrix
  ELSE LET sum == RowSum(local_matrix, i, 1, 0)
       IN LumpRows(
            [local_matrix EXCEPT
               ![i] = [j \in LocalDofs |-> IF i = j THEN sum ELSE 0]],
            i + 1)

LumpedNotReset(local_matrix) == LumpNotReset(local_matrix, 1, 0)
Lumped(local_matrix) == LumpRows(local_matrix, 1)

\* int mat_id = cell->material_id(); if (material.size() == 1) mat_id = 1;
MatId(material_id, size) == IF size = 1 THEN 1 ELSE material_id

\* material[mat_id - 1] is an element of the vector
InList(index, size) == index >= 0 /\ index < size

OutOfList(l) ==
  {c \in Cells : ~InList(MatId(l.material_id[c], l.n_solid_parts) - 1,
                         l.n_solid_parts)}

\* The material constants the cell loop works with.  material is a
\* std::vector and operator[] checks nothing: an index outside the list is
\* undefined behaviour, after which the run either stops in the access or
\* goes on with whatever the memory holds.
MaterialReads(l) ==
  {[c \in Cells |->
      IF c \in OutOfList(l) THEN garbage
      ELSE MaterialLambda(MatId(l.material_id[c], l.n_solid_parts) - 1)] :
     garbage \in 0..(MaxMaterials + 1)}

\* the whole of assemble(is_initial, assemble_matrix)
LeAssemble ==
  /\ le.status = "idle"
  /\ \E is_initial \in BOOLEAN, assemble_matrix \in BOOLEAN :
       \/ /\ OutOfList(le) # {}
          /\ le' = [le EXCEPT !.status = "crashed", !.read_outside = TRUE,
                              !.called = "assemble"]
       \/ \E lambda \in MaterialReads(le) :
            le' = [le EXCEPT
              !.status = "returned",
              !.called = "assemble",
              !.read_outside = OutOfList(le) # {},
              !.assemble_matrix = assemble_matrix,
              !.lambda = lambda,
              !.consistent =
                [c \in Cells |->
                   IF assemble_matrix THEN ConsistentMass(le.phi, le.rho)
                   ELSE ZeroMatrix],
              !.local_matrix =
                [c \in Cells |->
                   IF assemble_matrix
                   THEN Lumped(ConsistentMass(le.phi, le.rho))
                   ELSE ZeroMatrix],
              !.local_stiffness =
                [c \in Cells |->
                   IF assemble_matrix /\ ~is_initial THEN lambda[c] ELSE 0]]

\* the whole of update_strain_and_stress: elasticity of every cell
LeUpdateStrainAndStress ==
  /\ le.status = "idle"
  /\ \/ /\ OutOfList(le) # {}
        /\ le' = [le EXCEPT !.status = "crashed", !.read_outside = TRUE,
                            !.called = "update_strain_and_stress"]
     \/ \E lambda \in MaterialReads(le) :
          le' = [le EXCEPT !.status = "returned",
                           !.called = "update_strain_and_stress",
                           !.read_outside = OutOfList(le) # {},
                           !.lambda = lambda]

\* the step goes on to its next call of one of the two
LeNextCall ==
  /\ le.status = "returned"
  /\   le' = [le EXCEPT !.status = "idle", !.called = "none",
                        !.read_outside = FALSE,
                        !.assemble_matrix = FALSE,
                        !.lambda = [c \in Cells |-> 0],
                        !.consistent = [c \in Cells |-> ZeroMatrix],
                        !.local_matrix = [c \in Cells |-> ZeroMatrix],
                        !.local_stiffness = [c \in Cells |-> 0]]

(***************************************************************************)
(* LinearElasticity::run_one_step: the Newmark update of one degree of     *)
(* freedom.  The doubles are exact fractions num / den with den > 0; the   *)
(* damping parameter is a multiple of 1 / DampingDen in [0, 1).            *)
(***************************************************************************)
DampingDen == 4        \* damping parameters: 0, 1/DampingDen, ...
MaxNewmarkSteps == 2   \* the integration is followed for this many steps

RECURSIVE Gcd(_, _)
Gcd(a, b) == IF b = 0 THEN a ELSE Gcd(b, a % b)

Abs(x) == IF x < 0 THEN -x ELSE x

\* the fraction n / d in lowest terms, d > 0
Frac(n, d) ==
  LET g == Gcd(Abs(n), d)
  IN [num |-> n \div g, den |-> d \div g]

FInt(n) == [num |-> n, den |-> 1]
FNeg(a) == [num |-> -a.num, den |-> a.den]
FAdd(a, b) == Frac(a.num * b.den + b.num * a.den, a.den * b.den)
FSub(a, b) == FAdd(a, FNeg(b))
FMul(a, b) == Frac(a.num * b.num, a.den * b.den)
FDivInt(a, n) == Frac(a.num, a.den * n)
FLeq(a, b) == a.num * b.den <= b.num * a.den

\* double alpha = -parameters.damping;
NewmarkAlpha(damping) == FNeg(damping)
\* double gamma = 0.5 - alpha;
NewmarkGammaPlus(alpha) == FAdd(Frac(1, 2), alpha)
NewmarkGamma(alpha) == FSub(Frac(1, 2), alpha)
\* double beta = pow((1 - alpha), 2) / 4;
NewmarkBeta(alpha) ==
  FDivInt(FMul(FSub(FInt(1), alpha), FSub(FInt(1), alpha)), 4)

\* the steady-state part of run_one_step: the solve gives the new
\* acceleration, then the velocity and displacement updates, then
\* previous_* = current_*
NmRunOneStep ==
  /\ nm.steps < MaxNewmarkSteps
  /\ \E solved \in 0..MaxVal :
       LET alpha == NewmarkAlpha(nm.damping)
           gamma == NewmarkGamma(alpha)
           beta == NewmarkBeta(alpha)
           dt == FInt(nm.dt)
           current_acceleration == FInt(solved)
           current_velocity ==
             FAdd(FAdd(nm.previous_velocity,
                       FMul(FMul(dt, FSub(FInt(1), gamma)),
                            nm.previous_acceleration)),
                  FMul(FMul(dt, gamma), current_acceleration))
           current_displacement ==
             FAdd(FAdd(FAdd(nm.previous_displacement,
                            FMul(dt, nm.previous_velocity)),
                       FMul(FMul(FMul(dt, dt), FSub(Frac(1, 2), beta)),
                            nm.previous_acceleration)),
                  FMul(FMul(FMul(dt, dt), beta), current_acceleration))
       IN nm' = [nm EXCEPT
                   !.steps = @ + 1,
                   !.alpha = alpha, !.gamma = gamma, !.beta = beta,
                   !.previous_acceleration = current_acceleration,
                   !.previous_velocity = current_velocity,
                   !.previous_displacement = current_displacement]

\* the run is started again from its initial state
NmRestart ==
  /\ nm.steps > 0
  /\ nm' = [nm EXCEPT !.steps = 0,
                      !.alpha = FInt(0), !.gamma = FInt(0), !.beta = FInt(0),
                      !.previous_acceleration = FInt(0),
                      !.previous_velocity = FInt(0),
                      !.previous_displacement = FInt(0)]

IdleNm ==
  nm = [damping |-> FInt(0), dt |-> 1, steps |-> MaxNewmarkSteps,
        alpha |-> FInt(0), gamma |-> FInt(0), beta |-> FInt(0),
        previous_acceleration |-> FInt(0), previous_velocity |-> FInt(0),
        previous_displacement |-> FInt(0)]

(***************************************************************************)
(* One run of a solver from time 0: the linear solves of a step and the    *)
(* diagnostics files of the step loop (Stokes::run, run_one_step_new;      *)
(* LinearElasticity::run_one_step under SharedSolidSolver::run).           *)
(* Rank 0 writes the files; a file is a sequence of lines.                 *)
(***************************************************************************)
FluidChannels == {"energy_estimates.txt", "ind_vel_norm.txt",
                  "velocity_L2_norm.txt", "divergence_L2_norm.txt",
                  "gradp_L2_norm.txt"}
SolidChannels == {"solid_ke.txt"}
Channels == FluidChannels \cup SolidChannels

Header == [kind |-> "header", time |-> 0]
Row(at) == [kind |-> "row", time |-> at]

\* what an earlier run left in the working directory
StaleFile == <<Header, Row(0), Row(1)>>

\* std::ofstream opened with std::ios::out (truncates) when
\* time.current() == 0 and with std::ios::app otherwise; the header is
\* written when time.current() == 0; then the row of the current time
WriteChannelAppendOnly(content, t) ==
  IF t.current = 0
  THEN content \o <<Header, Row(t.current)>>
  ELSE Append(content, Row(t.current))
WriteChannel(content, t) ==
  IF t.current = 0
  THEN <<Header, Row(t.current)>>
  ELSE Append(content, Row(t.current))

\* compute_ind_norms, compute_fluid_norms, compute_pressure_gradient_norm,
\* compute_energy_estimates (names = FluidChannels); calculate_KE
\* (names = SolidChannels)
WriteChannels(files, names, t) ==
  [c \in Channels |-> IF c \in names THEN WriteChannel(files[c], t)
                      ELSE files[c]]

\* LinearSolvers::InverseMatrix::vmult: the exception of the inner CG solve
\* is caught and handed to Assert(false, ...), a macro that aborts in a debug
\* build and expands to nothing in an optimized build
InverseMatrixVmult(build, converged) ==
  IF converged THEN "ok"
  ELSE IF build = "debug" THEN "abort" ELSE "swallowed"

\* Stokes::solve: the inner solves of the preconditioner and the MINRES
\* solve, whose SolverControl throws when the iteration budget is used up;
\* nothing in solve, run_one_step_new or run catches it
StokesSolve(build, inner_converged, outer_converged) ==
  IF InverseMatrixVmult(build, inner_converged) = "abort" THEN "abort"
  ELSE IF ~outer_converged THEN "abort"
  ELSE "returned"

\* SharedSolidSolver::solve: cg.solve throws when it does not converge
SolidSolve(converged) == IF converged THEN "returned" ELSE "abort"

\* Stokes::run_one_step_new, as Stokes::run calls it: once before the loop
\* and then while time.end() - time.current() > 1e-12
StokesRunOneStepNew ==
  /\ fs.solver = "fluid"
  /\ fs.pc \in {"first", "loop"}
  /\ fs.pc = "loop" => LoopContinues(fs.time)
  /\ \E inner_converged \in BOOLEAN, outer_converged \in BOOLEAN,
        solution \in 0..MaxVal :
       LET files0 == IF fs.time.timestep = 0
                     THEN WriteChannels(fs.files, FluidChannels, fs.time)
                     ELSE fs.files
           t1 == TimeIncrement(fs.time)
           state == StokesSolve(fs.build, inner_converged, outer_converged)
       IN fs' =
            IF state = "abort"
            THEN [fs EXCEPT !.pc = "aborted", !.time = t1,
                            !.previous = fs.present, !.files = files0,
                            !.failed = TRUE]
            ELSE [fs EXCEPT !.pc = "loop", !.time = t1,
                            !.previous = fs.present, !.present = solution,
                            !.files = WriteChannels(files0, FluidChannels, t1),
                            !.failed = @ \/ ~inner_converged,
                            !.completed = @ + 1]

\* LinearElasticity::run_one_step(first_step), as SharedSolidSolver::run
\* calls it on a cold start: run_one_step(true), then run_one_step(false)
\* while time.end() - time.current() > 1e-12
SolidRunOneStep ==
  /\ fs.solver = "solid"
  /\ fs.pc \in {"first", "loop"}
  /\ fs.pc = "loop" => LoopContinues(fs.time)
  /\ \E initial_converged \in BOOLEAN, converged \in BOOLEAN,
        solution \in 0..MaxVal :
       LET first_step == fs.pc = "first"
           files0 == IF first_step
                     THEN WriteChannels(fs.files, SolidChannels, fs.time)
                     ELSE fs.files
           t1 == TimeIncrement(fs.time)
       IN fs' =
            IF first_step /\ SolidSolve(initial_converged) = "abort"
            THEN [fs EXCEPT !.pc = "aborted", !.files = files0,
                            !.failed = TRUE]
            ELSE IF SolidSolve(converged) = "abort"
            THEN [fs EXCEPT !.pc = "aborted", !.time = t1, !.files = files0,
                            !.failed = TRUE]
            ELSE [fs EXCEPT !.pc = "loop", !.time = t1,
                            !.present = solution, !.previous = solution,
                            !.files = WriteChannels(files0, SolidChannels, t1),
                            !.completed = @ + 1]

\* the loop condition of run() is false: run() returns
RunReturns ==
  /\ fs.solver \in {"fluid", "solid"}
  /\ fs.pc = "loop"
  /\ ~LoopContinues(fs.time)
  /\ fs' = [fs EXCEPT !.pc = "done"]

StepParameters(end_time, time_step) ==
  [end_time |-> end_time, time_step |-> time_step, output_interval |-> 1,
   refinement_interval |-> 1, save_interval |-> 1]

IdleFs ==
  fs = [solver |-> "none", build |-> "debug", pc |-> "done",
        time |-> NewTime(StepParameters(0, 1)), present |-> 0, previous |-> 0,
        files |-> [c \in Channels |-> <<>>], failed |-> FALSE,
        completed |-> 0]

(***************************************************************************)
(* SharedSolidSolver::save_checkpoint as every process executes it.        *)
(* The three localized copies Vector<double> at its top gather the         *)
(* distributed vectors on every process: a collective, left by a process   *)
(* once all have entered it.  The branch if (this_mpi_process == 0)        *)
(* follows; nothing follows the branch but a pcout.                        *)
(***************************************************************************)
SaveProcs == 2     \* processes of the solid solver
MaxSaves == 3      \* calls of save_checkpoint that are followed

SaveRanks == 0..(SaveProcs - 1)

\* a process calls save_checkpoint(output_index) and enters the collective;
\* the k-th call is made with output_index = k
CkCall(p) ==
  /\ ck.at[p] = "running"
  /\ ck.calls[p] < MaxSaves
  /\ ck' = [ck EXCEPT !.at[p] = "localize", !.calls[p] = @ + 1]

\* lines 862-864: every process holds the whole current_* vectors
CkLocalize ==
  /\ \A p \in SaveRanks : ck.at[p] = "localize"
  /\ \E k \in 0..MaxVal :
       ck' = [ck EXCEPT !.at = [p \in SaveRanks |-> "branch"],
                        !.fields = SolverState(k)]

\* line 866, on rank 0: the directory is scanned (lines 874-880), which
\* fixes the file operations of lines 881-906
CkBranchRoot ==
  /\ ck.at[0] = "branch"
  /\ ck' = [ck EXCEPT !.at[0] = "io",
                      !.ops = SaveOps(ck.disk, ck.calls[0], ck.fields)]

\* line 866, on another rank: the branch is skipped, lines 909-911, return
CkReturn(p) ==
  /\ p # 0
  /\ ck.at[p] = "branch"
  /\ ck' = [ck EXCEPT !.at[p] = "running", !.returned[p] = @ + 1]

\* rank 0 performs its next file operation
CkFileOp ==
  /\ ck.at[0] = "io"
  /\ ck.ops # <<>>
  /\ ck' = [ck EXCEPT !.disk = ApplyOp(ck.disk, Head(ck.ops)),
                      !.ops = Tail(ck.ops),
                      !.io_by = @ \cup {0}]

\* rank 0 has written the three files: lines 907-911, return
CkReturnRoot ==
  /\ ck.at[0] = "io"
  /\ ck.ops = <<>>
  /\ ck' = [ck EXCEPT !.at[0] = "running", !.returned[0] = @ + 1,
                      !.written = @ + 1]

IdleCk ==
  ck = [at |-> [p \in SaveRanks |-> "done"],
        calls |-> [p \in SaveRanks |-> 0],
        returned |-> [p \in SaveRanks |-> 0],
        written |-> 0, fields |-> ZeroFields, ops |-> <<>>,
        disk |-> EmptyDir, io_by |-> {}]

(***************************************************************************)
(* SharedSolidSolver::constrain_points and the point constraints of        *)
(* SharedSolidSolver::setup_dofs.  The mesh has the vertices               *)
(* 1..NVertices; a point is given by the vertex it coincides with (within  *)
(* the tolerance 1e-4), or by 0 when it coincides with none.               *)
(***************************************************************************)
NVertices == 2     \* vertices of the mesh
MaxPoints == 2     \* longest list passed to constrain_points
dim == 2           \* space dimension: directions 0..dim-1

Vertices == 1..NVertices
PointValues == 0..NVertices
DirectionValues == 0..(dim - 1)

ListsOf(S) == UNION {[1..n -> S] : n \in 0..MaxPoints}

\* cell->vertex_dof_index(v, d)
VertexDofIndex(v, d) == (v - 1) * dim + d

\* the vertex loop of lines 126-151 for point i: find_point
FindPoint(point) == \E v \in Vertices : v = point

\* if (!points.empty() && !directions.empty())
EntersPointLoop(points, directions) ==
  points # <<>> /\ directions # <<>>

\* lines 109-155: the outcome for the stored lists
PointConstraints(points, directions) ==
  IF EntersPointLoop(points, directions)
  THEN IF Len(points) # Len(directions)
       THEN [status |-> "configuration_error", lines |-> {}]
       ELSE IF \E i \in 1..Len(points) : ~FindPoint(points[i])
       THEN [status |-> "configuration_error", lines |-> {}]
       ELSE [status |-> "returned",
             lines |-> {VertexDofIndex(points[i], directions[i]) :
                          i \in 1..Len(points)}]
  ELSE [status |-> "returned", lines |-> {}]

\* constrain_points(points, directions): stores the two lists
ConstrainPoints ==
  /\ pb.status = "constructed"
  /\ \E points \in ListsOf(PointValues), directions \in ListsOf(DirectionValues) :
       pb' = [pb EXCEPT !.points = points, !.directions = directions,
                        !.status = "constrained"]

\* setup_dofs, called with or without an earlier constrain_points
SetupDofs ==
  /\ pb.status \in {"constructed", "constrained"}
  /\ LET r == PointConstraints(pb.points, pb.directions)
     IN pb' = [pb EXCEPT !.status = r.status, !.lines = r.lines]

\* another solver object is constructed
PbNextSolver ==
  /\ pb.status \in {"returned", "configuration_error"}
  /\ pb' = [points |-> <<>>, directions |-> <<>>, status |-> "constructed",
            lines |-> {}]

IdlePb ==
  pb = [points |-> <<>>, directions |-> <<>>, status |-> "none",
        lines |-> {}]

(***************************************************************************)
(* LinearElasticity::run_one_step: the matrix and the damping terms of     *)
(* the acceleration solve.  Every matrix of the step is a combination of   *)
(* the lumped mass matrix M, of c K with K the stiffness matrix and        *)
(* c = dt^2 beta (1 + alpha), of the added mass A (diagonal) and of        *)
(* gamma dt D_i with D_i the damping integral of cell i (rho / dt times    *)
(* its consistent mass integral).  A matrix is held as the coefficients    *)
(* of its diagonal entries and of its off-diagonal entries: damp[c][i]     *)
(* counts how often D_i was added to the entries of cell c.                *)
(***************************************************************************)
MaxEffSteps == 3   \* steps of run_one_step that are followed

ZeroDamp == [c \in Cells |-> [i \in Cells |-> 0]]
ZeroCoef == [M |-> 0, K |-> 0, A |-> 0, damp |-> ZeroDamp]
ZeroUpdated == [diag |-> ZeroCoef, off |-> ZeroCoef]

\* the damping matrix the claim speaks of: D_c once on the entries of cell c
OneDamp == [c \in Cells |-> [i \in Cells |-> IF i = c THEN 1 ELSE 0]]

AddDamp(a, b) == [c \in Cells |-> [i \in Cells |-> a[c][i] + b[c][i]]]

\* assemble, lines 64, 95-99, 163-172: local_damping is created once per
\* call and is not among the local arrays set to 0 at the start of a cell,
\* so when cell c is distributed it holds the integrals of the cells 1..c
LocalDamping(c) == [i \in Cells |-> IF i <= c THEN 1 ELSE 0]

\* assemble(false, false), lines 330-334: local_damping is added to
\* damping_matrix, which assemble does not set to 0 (lines 28-35)
AssembleRhsDamping(damping_matrix) ==
  AddDamp(damping_matrix, [c \in Cells |-> LocalDamping(c)])

\* assemble_system(is_initial): system_matrix = M; stiffness_matrix = K
\* unless is_initial
AssembledSystemMatrix == [ZeroCoef EXCEPT !.M = 1]
AssembledStiffness(is_initial) == IF is_initial THEN 0 ELSE 1

\* system_matrix.add(dt * dt * beta * (1 + alpha), stiffness_matrix)
AddStiffness(system_matrix, stiffness_matrix) ==
  [system_matrix EXCEPT !.K = @ + stiffness_matrix]

\* system_matrix_updated.copy_from(system_matrix)
CopyFrom(system_matrix) == [diag |-> system_matrix, off |-> system_matrix]

\* system_matrix_updated.set(i, i, system_matrix.el(i, i) + added_mass_effect[i])
SetDiagonal(updated, system_matrix) ==
  [updated EXCEPT !.diag = [system_matrix EXCEPT !.A = 1]]

\* system_matrix_updated.add(gamma * dt, damping_matrix)
AddDamping(updated, damping_matrix) ==
  [diag |-> [updated.diag EXCEPT !.damp = AddDamp(@, damping_matrix)],
   off |-> [updated.off EXCEPT !.damp = AddDamp(@, damping_matrix)]]

\* lines 445-451: tmp4 (zero) is scaled by dt * (1 - gamma), then vmult
\* overwrites it with damping_matrix * previous_acceleration; tmp5 is
\* damping_matrix * previous_velocity; both are subtracted from tmp1
DampingForce(dt, gamma) ==
  [acceleration |-> FInt(1), velocity |-> FInt(1)]

NoDampingForce == [acceleration |-> FInt(0), velocity |-> FInt(0)]

\* run_one_step(first_step); refine is time.time_to_refine() at its end.
\* refine_mesh re-creates the matrices of initialize_system (zero, on the
\* new mesh); system_matrix_updated is not one of them: it is either left
\* as it was (stale, of the old mesh) or re-created as well
EmRunOneStep ==
  /\ em.steps < MaxEffSteps
  /\ \E refine \in BOOLEAN, stale \in BOOLEAN :
       LET first_step == em.steps = 0
           alpha == NewmarkAlpha(em.damping)
           gamma == NewmarkGamma(alpha)
           fsi == em.simulation_type = "FSI"
           implicit == fsi /\ ~em.is_lag_penalty_explicit
           \* lines 362-406
           sm1 == IF first_step
                  THEN AddStiffness(AssembledSystemMatrix,
                                    AssembledStiffness(FALSE))
                  ELSE em.system_matrix
           k1 == IF first_step THEN AssembledStiffness(FALSE)
                 ELSE em.stiffness_matrix
           up1 == IF first_step THEN CopyFrom(sm1)
                  ELSE em.system_matrix_updated
           \* lines 417-420
           dm1 == IF implicit THEN AssembleRhsDamping(em.damping_matrix)
                  ELSE em.damping_matrix
           \* lines 433-453
           up2 == IF fsi THEN SetDiagonal(up1, sm1) ELSE up1
           up3 == IF implicit THEN AddDamping(up2, dm1) ELSE up2
           force == IF implicit THEN DampingForce(em.dt, gamma)
                    ELSE NoDampingForce
           mesh1 == em.mesh
       IN em' =
            [em EXCEPT
               !.steps = @ + 1,
               !.solved_with = up3,
               !.solved_on = [matrix |-> em.updated_mesh, mesh |-> mesh1],
               !.force = force,
               !.damping_used = dm1,
               \* lines 487-491
               !.mesh = IF refine THEN @ + 1 ELSE @,
               !.system_matrix = IF refine THEN AssembledSystemMatrix ELSE sm1,
               !.stiffness_matrix =
                  IF refine THEN AssembledStiffness(FALSE) ELSE k1,
               !.damping_matrix = IF refine THEN ZeroDamp ELSE dm1,
               !.system_matrix_updated =
                  IF refine /\ ~stale THEN ZeroUpdated ELSE up3,
               !.updated_mesh =
                  IF refine /\ ~stale THEN em.mesh + 1 ELSE @]

\* a new run with the same parameters
EmRestart ==
  /\ em.steps > 0
  /\ em' = [em EXCEPT !.steps = 0, !.mesh = 0, !.updated_mesh = 0,
                      !.system_matrix = ZeroCoef, !.stiffness_matrix = 0,
                      !.damping_matrix = ZeroDamp,
                      !.system_matrix_updated = ZeroUpdated,
                      !.solved_with = ZeroUpdated,
                      !.solved_on = [matrix |-> 0, mesh |-> 0],
                      !.damping_used = ZeroDamp,
                      !.force = NoDampingForce]

NewEm(simulation_type, is_lag_penalty_explicit, damping, dt) ==
  [simulation_type |-> simulation_type,
   is_lag_penalty_explicit |-> is_lag_penalty_explicit,
   damping |-> damping, dt |-> dt, steps |-> 0, mesh |-> 0,
   updated_mesh |-> 0,
   system_matrix |-> ZeroCoef, stiffness_matrix |-> 0,
   damping_matrix |-> ZeroDamp, system_matrix_updated |-> ZeroUpdated,
   solved_with |-> ZeroUpdated, solved_on |-> [matrix |-> 0, mesh |-> 0],
   damping_used |-> ZeroDamp, force |-> NoDampingForce]

IdleEm == em = NewEm("none", TRUE, FInt(0), 1)

(***************************************************************************)
(* The regions of the fluid mesh as the routines of Stokes see them: the   *)
(* assembly and the diagnostics each test the indicator of a cell on       *)
(* their own.  For every routine the cells it has taken as fluid are kept. *)
(***************************************************************************)
Routines == {"assemble", "energy_estimates", "ind_norms", "fluid_norms",
             "pressure_gradient_norm"}

\* Stokes::assemble: ind == 0 ? mass_coef_f : mass_coef_s
AssembleTakesAsFluid(ind) == ind = 0

\* compute_energy_estimates: is_artificial = (indicator == 1); the fluid
\* density and the fluid sums are used when it is false
EnergyTakesAsFluid(ind) == ~(ind = 1)

\* compute_ind_norms: the cells with indicator == 1 are the indicator region
IndNormsTakesAsFluid(ind) == ~(ind = 1)

\* compute_fluid_norms: if (indicator == 1) continue;
FluidNormsTakesAsFluid(ind) == ~(ind = 1)

\* compute_pressure_gradient_norm: if (indicator != 0) continue;
PressureGradientTakesAsFluid(ind) == ~(ind # 0)

\* the locally owned cells a routine has taken as fluid
DgRun(routine, takes_as_fluid) ==
  /\ routine \notin dg.ran
  /\ dg' = [dg EXCEPT
              !.ran = @ \cup {routine},
              !.fluid[routine] =
                 {c \in Cells : dg.owned[c] /\ takes_as_fluid[dg.indicator[c]]}]

DgAssemble ==
  DgRun("assemble", [ind \in Indicators |-> AssembleTakesAsFluid(ind)])

ComputeEnergyEstimates ==
  DgRun("energy_estimates", [ind \in Indicators |-> EnergyTakesAsFluid(ind)])

ComputeIndNorms ==
  DgRun("ind_norms", [ind \in Indicators |-> IndNormsTakesAsFluid(ind)])

ComputeFluidNorms ==
  DgRun("fluid_norms", [ind \in Indicators |-> FluidNormsTakesAsFluid(ind)])

ComputePressureGradientNorm ==
  DgRun("pressure_gradient_norm",
        [ind \in Indicators |-> PressureGradientTakesAsFluid(ind)])

\* the next step: the indicator field is refreshed by the detector
DgNextStep ==
  /\ dg.ran # {}
  /\ \E ind \in [Cells -> Indicators] :
       dg' = [dg EXCEPT !.indicator = ind, !.ran = {},
                        !.fluid = [r \in Routines |-> {}]]

NewDg(ind, own) ==
  [indicator |-> ind, owned |-> own, ran |-> {},
   fluid |-> [r \in Routines |-> {}]]

IdleDg == dg = NewDg([c \in Cells |-> 0], [c \in Cells |-> FALSE])

(***************************************************************************)
(* Initial states and specifications.                                      *)
(***************************************************************************)
AllParameters ==
  [end_time : 0..MaxEnd, time_step : 1..MaxDt,
   output_interval : 1..MaxInterval, refinement_interval : 1..MaxInterval,
   save_interval : 1..MaxInterval, simulation_type : {"Solid", "Fluid", "FSI"},
   initial_velocity : {1}]

IdleRun ==
  /\ prog = "none"
  /\ parameters = [end_time |-> 0, time_step |-> 1, output_interval |-> 1,
                   refinement_interval |-> 1, save_interval |-> 1,
                   simulation_type |-> "none", initial_velocity |-> 0]
  /\ Construct
  /\ disk = EmptyDir
  /\ last_save = NoSave

IdleSable ==
  /\ sw = [p \in Procs |-> [pc |-> "done", is_comm_active |-> FALSE,
                            timestep |-> 0, current |-> 0, delta_t |-> 0]]
  /\ sw_post = [p \in Procs |-> "none"]
  /\ sw_hist = NoReduction
  /\ sw_ctor = [fluid_velocity_degree |-> 1, fluid_pressure_degree |-> 1,
                status |-> "none"]

IdlePin ==
  pin = [owner |-> [d \in Dofs |-> 0], dist |-> [d \in Dofs |-> 0],
         done |-> TRUE, global_rank |-> 0, fixed |-> InvalidDofIndex,
         constraints |-> [r \in Ranks |-> {}]]

IdleAsm ==
  asm = [indicator |-> [c \in Cells |-> 0], owned |-> [c \in Cells |-> FALSE],
         fluid_rho |-> 1, solid_rho |-> 1, theta |-> 0, dt_inv |-> 1,
         viscosity |-> 1, gravity |-> 1,
         present_solution |-> [c \in Cells |-> 0],
         fsi_stress |-> [c \in Cells |-> 0],
         fsi_acceleration |-> [c \in Cells |-> 0],
         fresh |-> FALSE,
         system_matrix |-> [c \in Cells |-> 0],
         preconditioner_matrix |-> [c \in Cells |-> 0],
         system_rhs |-> [c \in Cells |-> 0],
         fsi_force_acceleration_part |-> [c \in Cells |-> 0],
         fsi_force_stress_part |-> [c \in Cells |-> 0],
         fsi_force |-> [c \in Cells |-> 0]]

IdleLe ==
  le = [phi |-> [i \in LocalDofs |-> 0], rho |-> 1,
        material_id |-> [c \in Cells |-> 1], n_solid_parts |-> 1,
        status |-> "returned", called |-> "none", read_outside |-> FALSE,
        assemble_matrix |-> FALSE,
        lambda |-> [c \in Cells |-> 0],
        consistent |-> [c \in Cells |-> ZeroMatrix],
        local_matrix |-> [c \in Cells |-> ZeroMatrix],
        local_stiffness |-> [c \in Cells |-> 0]]

IdleExtra == IdleLe /\ IdleNm /\ IdleFs /\ IdleCk /\ IdlePb /\ IdleEm /\ IdleDg

\* the solid solver with its checkpoint manager, in an empty directory
Init ==
  /\ prog = "solid"
  /\ parameters \in {p \in AllParameters :
                       /\ p.time_step = 1
                       /\ p.end_time \in {0, MaxEnd}
                       /\ p.refinement_interval = MaxInterval
                       /\ p.save_interval = 1
                       /\ p.simulation_type \in {"Solid", "FSI"}}
  /\ Construct
  /\ disk = EmptyDir
  /\ last_save = NoSave
  /\ IdleSable /\ IdlePin /\ IdleAsm /\ IdleExtra

Next ==
  \/ (LoadCheckpoint /\ UNCHANGED <<sableVars, pin, asm, extraVars>>)
  \/ (InitFresh /\ UNCHANGED <<sableVars, pin, asm, extraVars>>)
  \/ (SolidFirst /\ UNCHANGED <<sableVars, pin, asm, extraVars>>)
  \/ (SolidLoop /\ UNCHANGED <<sableVars, pin, asm, extraVars>>)
  \/ (SaveCheckpoint /\ UNCHANGED <<sableVars, pin, asm, extraVars>>)
  \/ (Restart /\ UNCHANGED <<sableVars, pin, asm, extraVars>>)

Spec == Init /\ [][Next]_vars

\* the two drivers over all parameters, cold start, scheduled fairly
InitTime ==
  /\ prog \in {"solid", "fluid"}
  /\ parameters \in {p \in AllParameters :
                       p.simulation_type \in
                         {IF prog = "solid" THEN "Solid" ELSE "Fluid", "FSI"}}
  /\ Construct
  /\ disk = EmptyDir
  /\ last_save = NoSave
  /\ IdleSable /\ IdlePin /\ IdleAsm /\ IdleExtra

NextTime ==
  \/ (LoadCheckpoint /\ UNCHANGED <<sableVars, pin, asm, extraVars>>)
  \/ (InitFresh /\ UNCHANGED <<sableVars, pin, asm, extraVars>>)
  \/ (SolidFirst /\ UNCHANGED <<sableVars, pin, asm, extraVars>>)
  \/ (SolidLoop /\ UNCHANGED <<sableVars, pin, asm, extraVars>>)
  \/ (FluidInit /\ UNCHANGED <<sableVars, pin, asm, extraVars>>)
  \/ (FluidFirst /\ UNCHANGED <<sableVars, pin, asm, extraVars>>)
  \/ (FluidLoop /\ UNCHANGED <<sableVars, pin, asm, extraVars>>)

SpecTime == InitTime /\ [][NextTime]_vars /\ WF_vars(NextTime)

\* the exchange loop of the external-code coupling
InitSable ==
  /\ IdleRun /\ IdlePin /\ IdleAsm /\ IdleExtra
  /\ \E time_step \in 1..MaxDt :
       sw = [p \in Procs |-> [pc |-> "while", is_comm_active |-> TRUE,
                               timestep |-> 0, current |-> 0,
                               delta_t |-> time_step]]
  /\ sw_post = [p \in Procs |-> "none"]
  /\ sw_hist = NoReduction
  /\ sw_ctor \in [fluid_velocity_degree : Degrees,
                   fluid_pressure_degree : Degrees, status : {"none"}]

NextSable ==
  \/ (SableWrapConstruct /\ UNCHANGED <<runVars, pin, asm, extraVars>>)
  \/ \E p \in Procs :
       Constructed /\ SwWhile(p)
         /\ UNCHANGED <<sw_ctor, runVars, pin, asm, extraVars>>
  \/ \E p \in Procs :
       Constructed /\ SwRunOneStep(p)
         /\ UNCHANGED <<sw_ctor, runVars, pin, asm, extraVars>>
  \/ \E p \in Procs :
       Constructed /\ SwGetDt(p)
         /\ UNCHANGED <<sw_ctor, runVars, pin, asm, extraVars>>
  \/ (Constructed /\ SwCounts
         /\ UNCHANGED <<sw_ctor, runVars, pin, asm, extraVars>>)
  \/ (Constructed /\ SwStep
         /\ UNCHANGED <<sw_ctor, runVars, pin, asm, extraVars>>)
  \/ (Constructed /\ SwDt
         /\ UNCHANGED <<sw_ctor, runVars, pin, asm, extraVars>>)

SpecSable == InitSable /\ [][NextSable]_vars

\* the pressure pin over all distributions of the pressure dofs
InitPin ==
  /\ IdleRun /\ IdleSable /\ IdleAsm /\ IdleExtra
  /\ \E o \in [Dofs -> Ranks], d \in [Dofs -> 0..MaxDist] :
       pin = [owner |-> o, dist |-> d, done |-> FALSE, global_rank |-> 0,
              fixed |-> InvalidDofIndex, constraints |-> [r \in Ranks |-> {}]]

NextPin ==
  \/ (SetUpBoundaryValues /\ UNCHANGED <<runVars, sableVars, asm, extraVars>>)
  \/ (Repartition /\ UNCHANGED <<runVars, sableVars, asm, extraVars>>)

SpecPin == InitPin /\ [][NextPin]_vars

\* the assembly over all indicator fields and coefficients
InitAsm ==
  /\ IdleRun /\ IdleSable /\ IdlePin /\ IdleExtra
  /\ \E rf \in 1..MaxRho, rs \in 1..MaxRho, th \in 0..MaxTheta,
        di \in 1..MaxDtInv, ind \in [Cells -> Indicators],
        own \in [Cells -> BOOLEAN], u \in [Cells -> 0..1] :
       asm = [indicator |-> ind, owned |-> own,
              fluid_rho |-> rf, solid_rho |-> rs, theta |-> th, dt_inv |-> di,
              viscosity |-> 1, gravity |-> 1,
              present_solution |-> u,
              fsi_stress |-> [c \in Cells |-> 1],
              fsi_acceleration |-> [c \in Cells |-> 1],
              fresh |-> FALSE,
              system_matrix |-> [c \in Cells |-> 0],
              preconditioner_matrix |-> [c \in Cells |-> 0],
              system_rhs |-> [c \in Cells |-> 0],
              fsi_force_acceleration_part |-> [c \in Cells |-> 0],
              fsi_force_stress_part |-> [c \in Cells |-> 0],
              fsi_force |-> [c \in Cells |-> 0]]

NextAsm ==
  \/ (Assemble /\ UNCHANGED <<runVars, sableVars, pin, extraVars>>)
  \/ (SetIndicator /\ UNCHANGED <<runVars, sableVars, pin, extraVars>>)

SpecAsm == InitAsm /\ [][NextAsm]_vars

\* the solid assembly over all shape values, densities and material ids
InitSolidAsm ==
  /\ IdleRun /\ IdleSable /\ IdlePin /\ IdleAsm /\ IdleNm /\ IdleFs /\ IdleCk /\ IdlePb /\ IdleEm /\ IdleDg
  /\ \E phi \in [LocalDofs -> 0..MaxPhi], rho \in 1..MaxRho,
        ids \in [Cells -> MaterialIds], n \in 1..MaxMaterials :
       le = [phi |-> phi, rho |-> rho, material_id |-> ids,
             n_solid_parts |-> n, status |-> "idle", called |-> "none",
             read_outside |-> FALSE, assemble_matrix |-> FALSE,
             lambda |-> [c \in Cells |-> 0],
             consistent |-> [c \in Cells |-> ZeroMatrix],
             local_matrix |-> [c \in Cells |-> ZeroMatrix],
             local_stiffness |-> [c \in Cells |-> 0]]

NextSolidAsm ==
  \/ (LeAssemble /\ UNCHANGED <<runVars, sableVars, pin, asm, nm, fs, ck, pb, em, dg>>)
  \/ (LeUpdateStrainAndStress
        /\ UNCHANGED <<runVars, sableVars, pin, asm, nm, fs, ck, pb, em, dg>>)
  \/ (LeNextCall /\ UNCHANGED <<runVars, sableVars, pin, asm, nm, fs, ck, pb, em, dg>>)

SpecSolidAsm == InitSolidAsm /\ [][NextSolidAsm]_vars

\* the Newmark integration over all damping parameters and initial states
InitNewmark ==
  /\ IdleRun /\ IdleSable /\ IdlePin /\ IdleAsm /\ IdleLe /\ IdleFs /\ IdleCk /\ IdlePb /\ IdleEm /\ IdleDg
  /\ \E d \in 0..(DampingDen - 1), dt \in 1..MaxDt,
        u \in 0..MaxVal, v \in 0..MaxVal, a \in 0..MaxVal :
       nm = [damping |-> Frac(d, DampingDen), dt |-> dt, steps |-> 0,
             alpha |-> FInt(0), gamma |-> FInt(0), beta |-> FInt(0),
             previous_acceleration |-> FInt(a), previous_velocity |-> FInt(v),
             previous_displacement |-> FInt(u)]

NextNewmark ==
  \/ (NmRunOneStep /\ UNCHANGED <<runVars, sableVars, pin, asm, le, fs, ck, pb, em, dg>>)
  \/ (NmRestart /\ UNCHANGED <<runVars, sableVars, pin, asm, le, fs, ck, pb, em, dg>>)

SpecNewmark == InitNewmark /\ [][NextNewmark]_vars

\* one run of either solver from time 0, in a debug or an optimized build,
\* in a directory that may hold the diagnostics files of an earlier run
InitStep ==
  /\ IdleRun /\ IdleSable /\ IdlePin /\ IdleAsm /\ IdleLe /\ IdleNm /\ IdleCk /\ IdlePb /\ IdleEm /\ IdleDg
  /\ \E solver \in {"fluid", "solid"}, build \in {"debug", "release"},
        end_time \in 0..MaxEnd, time_step \in 1..MaxDt,
        stale \in BOOLEAN, present \in 0..MaxVal :
       fs = [solver |-> solver, build |-> build, pc |-> "first",
             time |-> NewTime(StepParameters(end_time, time_step)),
             present |-> present, previous |-> present,
             files |-> [c \in Channels |->
                          IF stale THEN StaleFile ELSE <<>>],
             failed |-> FALSE, completed |-> 0]

NextStep ==
  \/ (StokesRunOneStepNew /\ UNCHANGED <<runVars, sableVars, pin, asm, le, nm, ck, pb, em, dg>>)
  \/ (SolidRunOneStep /\ UNCHANGED <<runVars, sableVars, pin, asm, le, nm, ck, pb, em, dg>>)
  \/ (RunReturns /\ UNCHANGED <<runVars, sableVars, pin, asm, le, nm, ck, pb, em, dg>>)

SpecStep == InitStep /\ [][NextStep]_vars

\* the saves of one run, on every process, starting in an empty directory
InitSave ==
  /\ IdleRun /\ IdleSable /\ IdlePin /\ IdleAsm /\ IdleLe /\ IdleNm /\ IdleFs /\ IdlePb /\ IdleEm /\ IdleDg
  /\ ck = [at |-> [p \in SaveRanks |-> "running"],
           calls |-> [p \in SaveRanks |-> 0],
           returned |-> [p \in SaveRanks |-> 0],
           written |-> 0, fields |-> ZeroFields, ops |-> <<>>,
           disk |-> EmptyDir, io_by |-> {}]

NextSave ==
  \/ \E p \in SaveRanks :
       CkCall(p) /\ UNCHANGED <<runVars, sableVars, pin, asm, le, nm, fs, pb, em, dg>>
  \/ (CkLocalize /\ UNCHANGED <<runVars, sableVars, pin, asm, le, nm, fs, pb, em, dg>>)
  \/ (CkBranchRoot /\ UNCHANGED <<runVars, sableVars, pin, asm, le, nm, fs, pb, em, dg>>)
  \/ \E p \in SaveRanks :
       CkReturn(p) /\ UNCHANGED <<runVars, sableVars, pin, asm, le, nm, fs, pb, em, dg>>
  \/ (CkFileOp /\ UNCHANGED <<runVars, sableVars, pin, asm, le, nm, fs, pb, em, dg>>)
  \/ (CkReturnRoot /\ UNCHANGED <<runVars, sableVars, pin, asm, le, nm, fs, pb, em, dg>>)

SpecSave == InitSave /\ [][NextSave]_vars

\* the point constraints over all lists of points and directions
InitPoints ==
  /\ IdleRun /\ IdleSable /\ IdlePin /\ IdleAsm /\ IdleLe /\ IdleNm /\ IdleFs /\ IdleCk /\ IdleEm /\ IdleDg
  /\ pb = [points |-> <<>>, directions |-> <<>>, status |-> "constructed",
           lines |-> {}]

NextPoints ==
  \/ (ConstrainPoints /\ UNCHANGED <<runVars, sableVars, pin, asm, le, nm, fs, ck, em, dg>>)
  \/ (SetupDofs /\ UNCHANGED <<runVars, sableVars, pin, asm, le, nm, fs, ck, em, dg>>)
  \/ (PbNextSolver /\ UNCHANGED <<runVars, sableVars, pin, asm, le, nm, fs, ck, em, dg>>)

SpecPoints == InitPoints /\ [][NextPoints]_vars

\* the matrices of the solid step, stand-alone and in FSI, with the
\* explicit and the implicit penalty
InitEff ==
  /\ IdleRun /\ IdleSable /\ IdlePin /\ IdleAsm /\ IdleLe /\ IdleNm /\ IdleFs /\ IdleCk /\ IdlePb /\ IdleDg
  /\ \E simulation_type \in {"Solid", "FSI"}, explicit \in BOOLEAN,
        d \in 0..(DampingDen - 1), dt \in 1..MaxDt :
       em = NewEm(simulation_type, explicit, Frac(d, DampingDen), dt)

NextEff ==
  \/ (EmRunOneStep
        /\ UNCHANGED <<runVars, sableVars, pin, asm, le, nm, fs, ck, pb, dg>>)
  \/ (EmRestart
        /\ UNCHANGED <<runVars, sableVars, pin, asm, le, nm, fs, ck, pb, dg>>)

SpecEff == InitEff /\ [][NextEff]_vars

\* the assembly and the diagnostics of the fluid on every indicator field
InitDiag ==
  /\ IdleRun /\ IdleSable /\ IdlePin /\ IdleAsm /\ IdleLe /\ IdleNm /\ IdleFs /\ IdleCk /\ IdlePb /\ IdleEm
  /\ \E ind \in [Cells -> Indicators], own \in [Cells -> BOOLEAN] :
       dg = NewDg(ind, own)

NextDiag ==
  \/ (DgAssemble
        /\ UNCHANGED <<runVars, sableVars, pin, asm, le, nm, fs, ck, pb, em>>)
  \/ (ComputeEnergyEstimates
        /\ UNCHANGED <<runVars, sableVars, pin, asm, le, nm, fs, ck, pb, em>>)
  \/ (ComputeIndNorms
        /\ UNCHANGED <<runVars, sableVars, pin, asm, le, nm, fs, ck, pb, em>>)
  \/ (ComputeFluidNorms
        /\ UNCHANGED <<runVars, sableVars, pin, asm, le, nm, fs, ck, pb, em>>)
  \/ (ComputePressureGradientNorm
        /\ UNCHANGED <<runVars, sableVars, pin, asm, le, nm, fs, ck, pb, em>>)
  \/ (DgNextStep
        /\ UNCHANGED <<runVars, sableVars, pin, asm, le, nm, fs, ck, pb, em>>)

SpecDiag == InitDiag /\ [][NextDiag]_vars

(***************************************************************************)
(* Properties.                                                             *)
(***************************************************************************)
\* the files of the checkpoint set of a step index, and the set as fields
SetFiles(index) ==
  {<<IntToString(index, StemDigits), e>> : e \in {ExtDisp, ExtVel, ExtAcc}}

SetOnDisk(d, index) ==
  Fields(d[<<IntToString(index, StemDigits), ExtDisp>>],
         d[<<IntToString(index, StemDigits), ExtVel>>],
         d[<<IntToString(index, StemDigits), ExtAcc>>])

IndicesOnDisk(d) == {StringToInt(Stem(f)) : f \in DispFiles(d)}

\* C1: after any sequence of saves with increasing step indices, starting
\* from an empty directory, exactly one checkpoint set is on disk when the
\* last save has returned, and it is the set of the most recent save.
C1_ExactlyOneSet ==
  last_save.index >= 0 =>
    /\ DOMAIN disk = SetFiles(last_save.index)
    /\ SetOnDisk(disk, last_save.index) = last_save.fields

\* C2: if at some step every process reports "inactive" to the activity
\* reduction, every process leaves the exchange loop at that step: none is
\* active, none performs a further get_dt_sable or run_one_step, and all are
\* at the same step.
C2_Termination ==
  sw_hist.all_inactive =>
    \A p \in Procs :
      /\ ~sw[p].is_comm_active
      /\ sw[p].pc \in {"while", "done"}
      /\ sw_post[p] = "none"
      /\ \A q \in Procs : sw[q].timestep = sw[p].timestep

C2_Witness ==
  /\ sw_hist.all_inactive
  /\ \A p \in Procs : sw[p].pc = "done"

\* C3, as claimed: is_comm_active becomes false only at a step where all
\* processes reported inactive; while one process reports active no
\* exchange loop ends.
C3_OnlyWhenAllInactive ==
  /\ (sw_hist.valid /\ ~sw_hist.result) =>
       (~sw_hist.ext /\ \A p \in Procs : ~sw_hist.reports[p])
  /\ \A p \in Procs :
       sw[p].pc = "done" =>
         (~sw_hist.ext /\ \A q \in Procs : ~sw_hist.reports[q])

\* C3, amended: is_comm_active becomes false exactly at a step where at
\* least one process reported inactive; while every process reports active
\* no process's flag is false and no exchange loop ends.
C3_WhenSomeInactive ==
  /\ sw_hist.valid =>
       (sw_hist.result <=> (sw_hist.ext /\ \A p \in Procs : sw_hist.reports[p]))
  /\ \A p \in Procs :
       (~sw[p].is_comm_active \/ sw[p].pc = "done") =>
         /\ sw_hist.valid
         /\ ~sw_hist.result
         /\ (~sw_hist.ext \/ \E q \in Procs : ~sw_hist.reports[q])

C3_Witness ==
  /\ sw_hist.valid /\ ~sw_hist.result /\ ~sw_hist.ext
  /\ \A p \in Procs : sw_hist.reports[p] /\ sw[p].pc = "done"

\* C4: a save at step index N followed by a load (no set with a larger index
\* present) restores displacement, velocity and acceleration equal to the
\* saved ones and leaves the clock at step N.
C4_RoundTrip ==
  (prog = "solid" /\ pc = "first" /\ last_save.index >= 0) =>
    /\ success_load
    /\ current = last_save.fields
    /\ time.timestep = last_save.index

C4_Witness ==
  /\ pc = "first" /\ success_load
  /\ last_save.index = 10
  /\ current = SolverState(1)
  /\ Cardinality(DispFiles(disk)) = 2

\* C5: with no checkpoint set in the directory, load_checkpoint returns
\* false, raises nothing and changes neither the fields nor the clock; run
\* then calls setup_dofs and initialize_system and executes the first step
\* as a first step.
C5_ColdStart ==
  [][/\ (prog = "solid" /\ pc = "start" /\ DispFiles(disk) = {}) =>
          /\ pc' = "init"
          /\ ~success_load'
          /\ UNCHANGED <<current, previous, time, pvd>>
     /\ (prog = "solid" /\ pc = "init") =>
          /\ pc' = "first"
          /\ current' = InitializeSystem(time, parameters).cur
          /\ previous' = InitializeSystem(time, parameters).prev
          /\ UNCHANGED time
     /\ (prog = "solid" /\ pc = "first" /\ ~success_load) =>
          /\ pc' = "loop"
          /\ last'.first
          /\ n_init_solve' = n_init_solve + 1]_vars

C5_Witness ==
  /\ prog = "solid" /\ pc = "loop" /\ ~success_load
  /\ disk = EmptyDir
  /\ last.first /\ n_init_solve = 1 /\ time.timestep = 1

\* C6: when several checkpoint sets are on disk, load_checkpoint restores
\* the set with the largest step index, in whatever order the directory is
\* enumerated.
C6_LoadsLargest ==
  (prog = "solid" /\ pc = "first" /\ success_load) =>
    LET m == SetMax(IndicesOnDisk(disk))
    IN /\ current = SetOnDisk(disk, m)
       /\ previous = current

C6_Witness ==
  /\ pc = "first" /\ success_load
  /\ Len(scan_order) = 2
  /\ scan_order[1] = IntToString(10, StemDigits)
  /\ scan_order[2] = IntToString(9, StemDigits)
  /\ SetOnDisk(disk, 9) # SetOnDisk(disk, 10)
  /\ current = SetOnDisk(disk, 10)

\* a step of the integrator is taken
StepTaken == time'.timestep = time.timestep + 1

\* end - current <= 1e-12, in ticks of the clock
Finished == time.end - time.current <= 0

StepCompleted == last.step >= 1 /\ last.step = time.timestep

C9_PressurePin ==
  pin.done =>
    LET pinned == UNION {pin.constraints[r] : r \in Ranks}
        least == SetMin({pin.dist[d] : d \in Dofs})
        tied == {pin.owner[d] : d \in {e \in Dofs : pin.dist[e] = least}}
    IN /\ Cardinality(pinned) = 1
       /\ Cardinality({r \in Ranks : pin.constraints[r] # {}}) = 1
       /\ \A d \in pinned :
            /\ pin.dist[d] = least
            /\ pin.owner[d] = SetMin(tied)
            /\ pin.constraints[pin.owner[d]] = {d}
            /\ pin.fixed = d

C9_Witness ==
  /\ pin.done
  /\ \E d, e \in Dofs :
       /\ pin.owner[d] < pin.owner[e]
       /\ pin.dist[d] = pin.dist[e]
       /\ \A f \in Dofs : pin.dist[f] >= pin.dist[d]
       /\ d > e
       /\ pin.constraints[pin.owner[d]] = {d}
  /\ \E r \in Ranks : \A d \in Dofs : pin.owner[d] # r

\* C10: for every locally owned cell the mass coefficient is fluid_rho / dt
\* when the indicator is 0 and (1 + theta) * solid_rho / dt otherwise, and
\* that one coefficient is in the system matrix, in the velocity block of
\* the preconditioner matrix and in the previous-velocity term of the
\* right-hand side.
C10_MassCoefficient ==
  asm.fresh =>
    \A c \in Cells :
      asm.owned[c] =>
        LET coef == IF asm.indicator[c] = 0
                    THEN asm.fluid_rho * asm.dt_inv
                    ELSE (1 + asm.theta) * asm.solid_rho * asm.dt_inv
        IN /\ asm.system_matrix[c] - n_q_points * 2 * asm.viscosity
                = n_q_points * coef
           /\ asm.preconditioner_matrix[c] - n_q_points * asm.viscosity
                = n_q_points * coef
           /\ asm.system_rhs[c] - n_q_points * asm.gravity - asm.fsi_force[c]
                = n_q_points * coef * asm.present_solution[c]

C10_Witness ==
  /\ asm.fresh
  /\ asm.theta = 1 /\ asm.solid_rho # asm.fluid_rho /\ asm.dt_inv = 2
  /\ \E c, e \in Cells :
       /\ asm.owned[c] /\ asm.owned[e]
       /\ asm.indicator[c] = 0 /\ asm.indicator[e] = 2
       /\ asm.present_solution[e] = 1
       /\ asm.preconditioner_matrix[e] # asm.preconditioner_matrix[c]

\* C11: whenever run_one_step or load_checkpoint has completed, the previous
\* displacement, velocity and acceleration equal the current ones of that
\* step, after any number of steps.
C11_PreviousEqualsCurrent ==
  (prog = "solid" /\ (StepCompleted \/ (pc = "first" /\ success_load))) =>
    previous = current

RECURSIVE SumOver(_, _)
\* the sum of f over the finite set S
SumOver(f, S) ==
  IF S = {} THEN 0
  ELSE LET x == CHOOSE y \in S : TRUE IN f[x] + SumOver(f, S \ {x})

AssembledMatrix ==
  le.status = "returned" /\ le.called = "assemble" /\ le.assemble_matrix

\* C12: after the lumping step of assemble every off-diagonal entry of the
\* cell-local mass matrix is 0 and every diagonal entry is the sum of the
\* corresponding row of the consistent matrix, so every row sum is kept.
C12_MassLumping ==
  AssembledMatrix =>
    \A c \in Cells : \A i \in LocalDofs :
      /\ le.local_matrix[c][i][i] = SumOver(le.consistent[c][i], LocalDofs)
      /\ \A j \in LocalDofs \ {i} : le.local_matrix[c][i][j] = 0
      /\ SumOver(le.local_matrix[c][i], LocalDofs)
           = SumOver(le.consistent[c][i], LocalDofs)

C12_Witness ==
  /\ AssembledMatrix
  /\ \E c \in Cells : \E i, j \in LocalDofs :
       /\ i < j
       /\ le.consistent[c][i][j] > 0
       /\ le.consistent[c][j][j] > 0
       /\ le.local_matrix[c][j][j] > le.consistent[c][j][j]
       /\ le.local_matrix[c][i][j] = 0

\* C14: whenever a cell's material id does not index into the material list
\* the solid integrator fails with a configuration error before it uses any
\* material data; it never reads a material outside the list.
C14_ConfigurationError ==
  /\ ~le.read_outside
  /\ (OutOfList(le) # {} /\ le.status # "idle") =>
       le.status = "configuration_error"

\* C13: run_one_step derives alpha = -damping, beta = (1 - alpha)^2 / 4 and
\* gamma = 0.5 - alpha; for every damping parameter in [0, 1) beta >= 0 and
\* gamma >= 0.5 - alpha, and for damping 0 beta = 0.25 and gamma = 0.5.
C13_NewmarkConstants ==
  nm.steps > 0 =>
    LET d == nm.damping.num
        n == nm.damping.den
    IN /\ nm.alpha.num * n = -d * nm.alpha.den
       /\ nm.beta.num * 4 * n * n = (n + d) * (n + d) * nm.beta.den
       /\ nm.gamma.num * 2 * n = (n + 2 * d) * nm.gamma.den
       /\ nm.beta.num >= 0 /\ nm.beta.den > 0
       /\ FLeq(FSub(Frac(1, 2), nm.alpha), nm.gamma)
       /\ d = 0 => (nm.beta = Frac(1, 4) /\ nm.gamma = Frac(1, 2))

C13_Witness ==
  /\ nm.steps > 0
  /\ nm.damping = Frac(1, 2)
  /\ nm.beta = Frac(9, 16)
  /\ nm.gamma = FInt(1)

\* C16: at every step of the exchange loop get_dt_sable sets on every process
\* the same time-step size, the maximum of the values contributed by all
\* processes, and the time-step size in force is never negative or zero while
\* the exchange loop is active.
C16_ExternalTimeStep ==
  \A p \in Procs :
    /\ (sw_hist.dts # {} /\ sw_post[p] # "dt" /\
        \A q \in Procs : sw[q].timestep = sw[p].timestep) =>
         /\ sw[p].delta_t = SetMax(sw_hist.dts)
         /\ \A q \in Procs : sw[q].delta_t = sw[p].delta_t
    /\ sw[p].pc # "done" => sw[p].delta_t > 0

\* C19: constructing SableWrap succeeds only when the velocity and pressure
\* element degrees are equal and both first order; for every other pair of
\* degrees construction aborts with a configuration error.
C19_FirstOrderOnly ==
  /\ sw_ctor.status = "constructed" =>
       DegreesFirstOrder(sw_ctor.fluid_velocity_degree,
                         sw_ctor.fluid_pressure_degree)
  /\ (sw_ctor.status # "none" /\
      ~DegreesFirstOrder(sw_ctor.fluid_velocity_degree,
                         sw_ctor.fluid_pressure_degree)) =>
       sw_ctor.status = "configuration_error"

\* C15: whenever a linear solve of a step (the outer minimum-residual solve,
\* the solid CG solve, or the inner pressure-block CG solve inside
\* InverseMatrix::vmult) does not converge within its iteration budget, the
\* step aborts with an error: after a failed solve no new present solution
\* is committed and no further step is started.
C15_ConvergenceFatal ==
  fs.failed => fs.pc = "aborted"

\* C20: for a run of k steps started at time 0, every diagnostics file of
\* the solver's step loop holds exactly one header line, written at time 0 in
\* place of whatever the file held, then one row for time 0 and one row per
\* completed step.
C20_Diagnostics ==
  fs.time.timestep > 0 =>
    \A c \in (IF fs.solver = "fluid" THEN FluidChannels ELSE SolidChannels) :
      /\ Len(fs.files[c]) = fs.completed + 2
      /\ fs.files[c][1] = Header
      /\ \A i \in 2..Len(fs.files[c]) :
           fs.files[c][i] = Row((i - 2) * fs.time.delta_t)

C20_Witness ==
  /\ fs.solver = "fluid"
  /\ fs.pc = "done"
  /\ fs.completed = 2
  /\ fs.files["energy_estimates.txt"] = <<Header, Row(0), Row(1), Row(2)>>
  /\ fs.files["solid_ke.txt"] = StaleFile

\* C17: during save_checkpoint only rank 0 creates, writes or deletes
\* checkpoint files, and no other process returns from its k-th
\* save_checkpoint before rank 0 has completed writing the three files of
\* the k-th save.
C17_SingleWriter ==
  /\ ck.io_by \subseteq {0}
  /\ \A p \in SaveRanks \ {0} : ck.returned[p] <= ck.written

\* C18: in every state, the intermediate states inside save_checkpoint
\* included, at most one checkpoint set is on disk and the set that
\* load_checkpoint would select (the displacement file with the greatest
\* stem) has its three companion files completely written.
C18_AtomicReplacement ==
  /\ Cardinality(IndicesOnDisk(ck.disk)) <= 1
  /\ \A order \in Orders(DispFiles(ck.disk)) :
       LET checkpoint_file == FindLatest(order, LocalPath)
       IN ~NotFound(checkpoint_file) =>
            \A e \in {ExtDisp, ExtVel, ExtAcc} :
              Readable(ck.disk, ReplaceExtension(checkpoint_file, e))

\* C21: setup_dofs aborts with a configuration error whenever
\* constrain_points supplied a point that matches no mesh vertex, and
\* whenever the lists of points and of directions have different lengths
\* (one of them empty included); it never returns having ignored supplied
\* point constraints.
C21_PointConstraints ==
  pb.status \in {"returned", "configuration_error"} =>
    /\ ((\E i \in 1..Len(pb.points) : pb.points[i] \notin Vertices)
        \/ Len(pb.points) # Len(pb.directions)) =>
         pb.status = "configuration_error"
    /\ pb.status = "returned" =>
         \A i \in 1..Len(pb.points) :
           VertexDofIndex(pb.points[i], pb.directions[i]) \in pb.lines

\* C22: in every steady-state step of run_one_step, the steps after a mesh
\* refinement included, the matrix passed to the acceleration solve is
\* M + dt^2 beta (1 + alpha) K with M and K of the current mesh, plus the
\* added mass and the damping terms in FSI mode only.
C22_EffectiveMatrix ==
  em.steps > 0 =>
    /\ em.solved_on.matrix = em.solved_on.mesh
    /\ em.solved_with.diag.M = 1
    /\ em.solved_with.diag.K = 1
    /\ em.solved_with.off.K = 1
    /\ em.simulation_type # "FSI" =>
         /\ em.solved_with.diag.A = 0
         /\ em.solved_with.diag.damp = ZeroDamp
         /\ em.solved_with.off.damp = ZeroDamp

\* C23: with the implicit penalty active in FSI, the effective matrix of
\* every steady-state step contains gamma dt C exactly once, C being the
\* damping matrix of the current step: the integral of each cell once on
\* the entries of that cell, whatever the number of steps taken and of the
\* cells assembled before.
C23_DampingOnce ==
  (em.steps > 0 /\ em.simulation_type = "FSI" /\ ~em.is_lag_penalty_explicit) =>
    /\ em.solved_with.diag.damp = OneDamp
    /\ em.solved_with.off.damp = OneDamp

\* C24: with the implicit penalty active, the effective force of a
\* steady-state step subtracts C v_n and dt (1 - gamma) C a_n.
C24_DampingForce ==
  (em.steps > 0 /\ em.simulation_type = "FSI" /\ ~em.is_lag_penalty_explicit) =>
    /\ em.force.velocity = FInt(1)
    /\ em.force.acceleration =
         FMul(FInt(em.dt),
              FSub(FInt(1), NewmarkGamma(NewmarkAlpha(em.damping))))

\* C25: after every Stokes::assemble the total FSI force of every degree of
\* freedom is the sum of its acceleration part and its stress part; the
\* three hold the contributions of this assembly alone; cells with
\* indicator 0 contribute nothing to any of them and no stress or
\* acceleration load to the right-hand side.
C25_FsiSubForces ==
  asm.fresh =>
    \A c \in Cells :
      /\ asm.fsi_force[c] =
           asm.fsi_force_acceleration_part[c] + asm.fsi_force_stress_part[c]
      /\ (asm.owned[c] /\ asm.indicator[c] # 0) =>
           /\ asm.fsi_force_acceleration_part[c] =
                n_q_points * asm.fsi_acceleration[c] * asm.solid_rho
           /\ asm.fsi_force_stress_part[c] = n_q_points * asm.fsi_stress[c]
      /\ (asm.indicator[c] = 0 \/ ~asm.owned[c]) =>
           /\ asm.fsi_force[c] = 0
           /\ asm.fsi_force_acceleration_part[c] = 0
           /\ asm.fsi_force_stress_part[c] = 0
      /\ (asm.owned[c] /\ asm.indicator[c] = 0) =>
           asm.system_rhs[c] =
             n_q_points * asm.gravity
             + n_q_points * asm.fluid_rho * asm.dt_inv * asm.present_solution[c]

C25_Witness ==
  /\ asm.fresh
  /\ asm.solid_rho = 2
  /\ \E c, e \in Cells :
       /\ asm.owned[c] /\ asm.owned[e]
       /\ asm.indicator[c] = 0 /\ asm.indicator[e] = 1
       /\ asm.fsi_force[c] = 0
       /\ asm.fsi_force[e] = n_q_points * 3
       /\ asm.fsi_force_stress_part[e] = n_q_points

\* C26: all processes executing SableWrap::run issue the same sequence of
\* collective reductions in the same order: the three count maxima alone at
\* step 0, before the loop's first get_dt_sable, and then in every iteration
\* the time-step maximum followed by the three count maxima and the activity
\* reduction, for every sequence of received time-step values (0 included)
\* and activity flags; no process is blocked in a collective while another
\* has left the loop or is blocked in a different one.
C26_CollectiveMatching ==
  \A p \in Procs :
    /\ sw_post[p] # "none" =>
         \A q \in Procs :
           /\ sw[q].pc # "done"
           /\ sw_post[q] \in {"none", sw_post[p]}
           /\ sw[q].timestep = sw[p].timestep
    /\ sw_post[p] = "counts" => sw[p].timestep = 0
    /\ sw[p].pc = "ros1" => sw[p].timestep = 0

\* the .pvd entries a run from a cold start has written when it has
\* completed step n: run_one_step(true) writes the entry of step 0, and
\* every run_one_step writes the entry of the step it completes when
\* time_to_output holds
RECURSIVE UninterruptedPvd(_, _, _)
UninterruptedPvd(t, w, n) ==
  IF t.timestep >= n THEN w
  ELSE LET t1 == TimeIncrement(t)
       IN UninterruptedPvd(t1,
                           IF SolidOutputs(t1) THEN Append(w, t1.timestep) ELSE w,
                           n)

\* C27: when load_checkpoint has restored the checkpoint of step N, the
\* step index of the clock is N and the .pvd record holds one entry for
\* step 0 followed by one entry for every step up to N at which the output
\* trigger fires, which are the entries a run without interruption has
\* written when it completes step N.
C27_RestartReplay ==
  (prog = "solid" /\ pc = "first" /\ success_load) =>
    LET N == SetMax(IndicesOnDisk(disk))
    IN /\ time.timestep = N
       /\ pvd = UninterruptedPvd(NewTime(parameters), <<0>>, N)
       /\ pvd = <<0>> \o SelectSeq([k \in 1..N |-> k],
                                   LAMBDA k : IntervalFires(k, parameters.output_interval))

C27_Witness ==
  /\ prog = "solid" /\ pc = "first" /\ success_load
  /\ parameters.output_interval = 2
  /\ time.timestep >= 4
  /\ Len(pvd) >= 3

\* the number of entries of step 0 in the .pvd record
ZeroEntries(w) == Len(SelectSeq(w, LAMBDA e : e = 0))

\* what C28 says of the moment of the step-0 actions: at most one initial
\* solve in a run, made by the step that leaves step 0 of a cold start and
\* by no other; none after a restart from a checkpoint; one output of
\* index 0, written before the first increment
StepZeroOnce ==
  /\ n_init_solve <= 1
  /\ success_load => n_init_solve = 0 /\ last.initial_solve = NoInitialSolve
  /\ last.initial_solve # NoInitialSolve <=> last.first
  /\ last.first => ~success_load /\ last.step = 1
  /\ (pc \in {"loop", "done"} /\ ~success_load) =>
       /\ n_init_solve = 1
       /\ ZeroEntries(pvd) = 1
       /\ Head(pvd) = 0
  /\ (pc = "first" /\ ~success_load) => n_init_solve = 0 /\ pvd = <<>>

\* C28, as claimed: the initial-acceleration solve, with the mass matrix
\* alone (no stiffness, nothing else), and the output of index 0 are made
\* once, on entry to step 0 of a cold start and before the first increment,
\* and in no later step; after a restart from a checkpoint no initial solve
\* is made.
C28_StepZeroPureMass ==
  prog = "solid" =>
    /\ StepZeroOnce
    /\ last.first => last.initial_solve = [M |-> 1, K |-> 0, A |-> 0]

\* C28, amended: the same, the matrix of the initial solve being the mass
\* matrix with no stiffness and, when the simulation type is FSI, with the
\* added mass on its diagonal.
C28_StepZeroOnce ==
  prog = "solid" =>
    /\ StepZeroOnce
    /\ last.first =>
         /\ last.initial_solve.M = 1
         /\ last.initial_solve.K = 0
         /\ last.initial_solve.A = 1 <=> parameters.simulation_type = "FSI"

C28_Witness ==
  /\ prog = "solid" /\ pc = "loop" /\ ~success_load
  /\ parameters.simulation_type = "FSI"
  /\ last.first /\ last.initial_solve.A = 1
  /\ n_init_solve = 1 /\ pvd = <<0, 1>>

\* C29: after every activity reduction of run_one_step all processes hold
\* the same value of is_comm_active, the result of the reduction; a process
\* whose is_comm_active is false never has it true again, whatever the
\* other processes report in a later reduction.
C29_ActivityFlag ==
  /\ [](sw_hist.valid =>
          \A p \in Procs : sw[p].is_comm_active = sw_hist.result)
  /\ [][\A p \in Procs :
          ~sw[p].is_comm_active => ~sw'[p].is_comm_active]_vars

\* a reduction to which a process whose flag was false already contributed,
\* while the external code reported active
C29_Witness ==
  /\ sw_hist.valid
  /\ sw_hist.ext
  /\ \A p \in Procs : ~sw_hist.reports[p] /\ ~sw[p].is_comm_active

\* C30: for every indicator value of a cell (0, 1 or another tag), each
\* diagnostic of the fluid (energy estimates, indicator velocity norm, fluid
\* velocity and divergence norms, pressure-gradient norm) takes the cell as
\* fluid exactly when Stokes::assemble applies the fluid mass coefficient to
\* it, that is when its indicator is 0: no cell is fluid for one routine and
\* solid or artificial for another.
C30_ConsistentPartition ==
  \A r \in dg.ran :
    /\ dg.fluid[r] = {c \in Cells : dg.owned[c] /\ dg.indicator[c] = 0}
    /\ \A other \in dg.ran : dg.fluid[other] = dg.fluid[r]

====
